---- MODULE Spec2Model ----
(***************************************************************************)
(* Verification model of karakeep-telegram-bot.                            *)
(*                                                                         *)
(*  - MediaGroupCollector (internal/telegram, Collect / flush) with its    *)
(*    mutex, its per-group time.AfterFunc timer and the goroutines the     *)
(*    timer starts;                                                        *)
(*  - App.processMessageBatch (internal/app) with the karakeep Client it   *)
(*    drives (CreateBookmark, UploadAsset, AttachAsset, Summarize,         *)
(*    GetBookmark over Client.do);                                         *)
(*  - waitForExtractedContent / waitForNonEmptySummary (internal/app):     *)
(*    the ticker, the deadline and the context of the polling loop;        *)
(*  - the goroutines that NewWebhookHandler, HandleUpdate and              *)
(*    HandleMediaGroup start, and where a panic in them ends;              *)
(*  - classifier.SliceByUTF16 on Go ints of IntBits bits.                  *)
(***************************************************************************)
EXTENDS Integers, Sequences, FiniteSets, TLC

(***************************************************************************)
(* Bounds of the model.                                                    *)
(***************************************************************************)
\* number of units (messages) handed to Collect; also the number of timer
\* goroutines, since every timer expiry needs a Collect that armed the timer
MaxMsgs == 3
\* media_group_id values, in the order in which they first appear
GroupOrder == <<"g1", "g2">>
Groups == {GroupOrder[i] : i \in DOMAIN GroupOrder}

\* NewMediaGroupCollector's debounce duration, in clock ticks (seconds)
Delay == 2

\* a timer that is not active: it has expired or was stopped
NoTimer == [active |-> FALSE, left |-> 0]
\* time.AfterFunc(d, ...) and Timer.Reset(d): active, expiring when d more
\* ticks have passed
TimerIn(d) == [active |-> TRUE, left |-> d]

FlushIds == 1..MaxMsgs

VARIABLES
    \* ---- MediaGroupCollector ----
    mu,           \* c.mu: 0 when free, else the flush goroutine holding it
    groups,       \* c.groups: group id -> [msgs, timer, gen]
    fl,           \* the goroutines started by timer expiries, each running c.flush(groupID)
    nFire,        \* number of timer goroutines started so far
    nextMsg,      \* identity of the next unit handed to Collect
    flushed,      \* history: the OnFlush invocations, in order
    since,        \* history: group id -> ticks since its most recent Collect, counted up to Delay
    collected,    \* history: group id -> every unit collected for it, in arrival order
    gens,         \* history: group id -> number of mediaGroup entries created for it
    maxGap,       \* history: group id -> the longest gap between its consecutive Collects, counted up to Delay
    \* ---- one run of App.processMessageBatch ----
    inp,          \* the batch and its surroundings: the user's row, the representative unit, the attachments
    pc,           \* position of the goroutine in processMessageBatch
    res,          \* classifier.ClassifyMessage(msg)
    apiPrefix,    \* Client.apiPrefix
    hasID,        \* b.ID != "" for the record returned by the create call
    attIdx,       \* index of the attachment being processed
    elapsed,      \* interval ticks since the running waiter started
    lastSuccess,  \* the user's last_success_id in the store
    events,       \* history: sends, edits, store writes and remote calls, in order
    firstCreate,  \* history: outcome of the first CreateBookmark call
    submitErr,    \* history: the create call (after the possible fallback) returned an error
    httpMax,      \* history: remote call -> most HTTP requests made by one such call
    resent,       \* history: answers to a first request after which the request was sent again
    editFailed,   \* history: the edits of the acknowledgment whose Bot.Send returned an error
    \* ---- one run of a polling waiter (waitForExtractedContent, waitForNonEmptySummary) ----
    wkind,        \* which waiter runs: "extract" or "summary"
    wpc,          \* position of the waiter: the remote read in progress, the select, returned
    wclock,       \* ticks since the waiter started
    wtick,        \* a tick is waiting in the ticker's channel t.C
    wread,        \* ticks the remote read in progress has taken so far
    wlive,        \* the remote read in progress was started before ctx was cancelled
    wcancel,      \* where the waiter was when ctx was cancelled ("none" while it is not)
    wresult,      \* the waiter's return value
    wlate,        \* history: poll iterations started after ctx was cancelled
    wcalls,       \* history: the remote calls the waiter has made, in order
    wsumErr,      \* history: the last client.Summarize that returned, returned an error
    wgot,         \* history: what the last client.GetBookmark returned
    wret,         \* the record the summary waiter returns
    \* ---- the process and the goroutines it starts for the updates ----
    procUp,       \* the process runs
    upd,          \* update -> its kind and where its handling is
    \* ---- one call of classifier.SliceByUTF16 ----
    stext,        \* s, as its runes
    soff,         \* off
    slen,         \* length
    spc,          \* "call" before the function has run, "done" after
    sout,         \* the returned string, as its runes
    \* ---- one unit through classifier.ClassifyMessage and the create call ----
    cmsg,         \* the unit: its text, caption, entities and media flag
    cpc,          \* "call", "classified", "fallback", "created"
    curls,        \* urls, the list ExtractURLsFromMessage returned to ClassifyMessage
    cres,         \* the classifier.Result
    ccreates,     \* history: the arguments of the client.CreateBookmark calls, in order
    \* ---- one batch through processSingleMessage or processMediaGroup ----
    gbatch,       \* where the batch comes from and its units
    gpc,          \* "start" before the batch is processed, "extracted" after
    gpick,        \* index in the batch of the unit handed over as msg
    gatts,        \* ExtractAttachments(batch)
    \* ---- one call of userFacingKarakeepError, DownloadFileByID or hasExtractedContent ----
    hfn,          \* the function called and its arguments
    hret          \* <<>> before the call has returned, then <<the returned value>>

cvars == <<mu, groups, fl, nFire, nextMsg, flushed, since, collected, gens, maxGap>>

bvars == <<inp, pc, res, apiPrefix, hasID, attIdx, elapsed, lastSuccess, events, firstCreate,
           submitErr, httpMax, resent, editFailed>>

wvars == <<wkind, wpc, wclock, wtick, wread, wlive, wcancel, wresult, wlate, wcalls, wsumErr, wgot, wret>>

lvars == <<procUp, upd>>

uvars == <<stext, soff, slen, spc, sout>>

kvars == <<cmsg, cpc, curls, cres, ccreates>>

gvars == <<gbatch, gpc, gpick, gatts>>

hvars == <<hfn, hret>>

\* what the steps of each component leave alone: the other components
outsideCollector == <<bvars, wvars, lvars, uvars, kvars, gvars, hvars>>
outsideBatch == <<cvars, wvars, lvars, uvars, kvars, gvars, hvars>>
outsideWaiter == <<cvars, bvars, lvars, uvars, kvars, gvars, hvars>>
outsideLaunch == <<cvars, bvars, wvars, uvars, kvars, gvars, hvars>>
outsideClassify == <<cvars, bvars, wvars, lvars, uvars, gvars, hvars>>
outsideGroup == <<cvars, bvars, wvars, lvars, uvars, kvars, hvars>>
outsideHelpers == <<cvars, bvars, wvars, lvars, uvars, kvars, gvars>>

vars == <<cvars, bvars, wvars, lvars, uvars, kvars, gvars, hvars>>

\* a goroutine slot that no timer expiry has used yet
NoFlush == [pc |-> "none", gid |-> "g1", ok |-> FALSE, batch |-> <<>>, gen |-> 0, re |-> FALSE]

CollectorInit ==
    /\ mu = 0
    /\ groups = [k \in {} |-> 0]   \* make(map[string]*mediaGroup)
    /\ fl = [f \in FlushIds |-> NoFlush]
    /\ nFire = 0
    /\ nextMsg = 1
    /\ flushed = <<>>
    /\ since = [g \in Groups |-> Delay]
    /\ collected = [g \in Groups |-> <<>>]
    /\ gens = [g \in Groups |-> 0]
    /\ maxGap = [g \in Groups |-> 0]

\* the map c.groups with key g set to entry e
MapPut(m, g, e) == [k \in (DOMAIN m) \cup {g} |-> IF k = g THEN e ELSE m[k]]
\* delete(c.groups, g)
MapDelete(m, g) == [k \in (DOMAIN m) \ {g} |-> m[k]]

\* the larger of two numbers
Max(a, b) == IF a > b THEN a ELSE b

\* the history a Collect of unit nextMsg for group g leaves behind
CollectHistory(g) ==
    /\ nextMsg' = nextMsg + 1
    /\ since' = [since EXCEPT ![g] = 0]
    /\ collected' = [collected EXCEPT ![g] = Append(@, nextMsg)]
    /\ maxGap' = [maxGap EXCEPT ![g] = IF collected[g] = <<>> THEN @ ELSE Max(@, since[g])]

\* Collect as the mutant that appends to an existing entry without resetting its timer
CollectBodyNoReset(g) ==
    /\ mu = 0
    /\ nextMsg <= MaxMsgs
    /\ IF g \in DOMAIN groups
         THEN /\ groups' = [groups EXCEPT ![g] =
                              [msgs |-> Append(@.msgs, nextMsg), timer |-> @.timer, gen |-> @.gen]]
              /\ gens' = gens
         ELSE /\ groups' = MapPut(groups, g,
                              [msgs |-> <<nextMsg>>, timer |-> TimerIn(Delay), gen |-> gens[g] + 1])
              /\ gens' = [gens EXCEPT ![g] = @ + 1]
    /\ CollectHistory(g)

\* Collect as the mutant that replaces the units of an existing entry by the
\* arriving one
CollectBodyOverwrite(g) ==
    /\ mu = 0
    /\ nextMsg <= MaxMsgs
    /\ IF g \in DOMAIN groups
         THEN /\ groups' = [groups EXCEPT ![g] =
                              [msgs |-> <<nextMsg>>, timer |-> TimerIn(Delay), gen |-> @.gen]]
              /\ gens' = gens
         ELSE /\ groups' = MapPut(groups, g,
                              [msgs |-> <<nextMsg>>, timer |-> TimerIn(Delay), gen |-> gens[g] + 1])
              /\ gens' = [gens EXCEPT ![g] = @ + 1]
    /\ CollectHistory(g)

\* Collect as the mutant that never starts a timer
CollectBodyNoTimer(g) ==
    /\ mu = 0
    /\ nextMsg <= MaxMsgs
    /\ IF g \in DOMAIN groups
         THEN /\ groups' = [groups EXCEPT ![g] =
                              [msgs |-> Append(@.msgs, nextMsg), timer |-> NoTimer, gen |-> @.gen]]
              /\ gens' = gens
         ELSE /\ groups' = MapPut(groups, g,
                              [msgs |-> <<nextMsg>>, timer |-> NoTimer, gen |-> gens[g] + 1])
              /\ gens' = [gens EXCEPT ![g] = @ + 1]
    /\ CollectHistory(g)

\* the body of Collect between c.mu.Lock() and the deferred c.mu.Unlock():
\* a new entry starts its timer with AfterFunc, the unit is appended, and the
\* timer is Reset to the full Delay (which re-arms a timer that has expired)
CollectBody(g) ==
    /\ mu = 0
    /\ nextMsg <= MaxMsgs
    /\ IF g \in DOMAIN groups
         THEN /\ groups' = [groups EXCEPT ![g] =
                              [msgs |-> Append(@.msgs, nextMsg), timer |-> TimerIn(Delay), gen |-> @.gen]]
              /\ gens' = gens
         ELSE /\ groups' = MapPut(groups, g,
                              [msgs |-> <<nextMsg>>, timer |-> TimerIn(Delay), gen |-> gens[g] + 1])
              /\ gens' = [gens EXCEPT ![g] = @ + 1]
    /\ CollectHistory(g)

\* MediaGroupCollector.Collect called for an arriving unit of group g
Collect(g) ==
    /\ CollectBody(g)
    /\ UNCHANGED <<mu, fl, nFire, flushed, outsideCollector>>

\* the runtime expires the entry's timer and starts a goroutine running c.flush(g)
TimerFire(g) ==
    /\ g \in DOMAIN groups
    /\ groups[g].timer.active
    /\ groups[g].timer.left = 0
    /\ nFire < MaxMsgs
    /\ nFire' = nFire + 1
    /\ fl' = [fl EXCEPT ![nFire + 1] = [NoFlush EXCEPT !.pc = "lock", !.gid = g]]
    /\ groups' = [groups EXCEPT ![g].timer = NoTimer]
    /\ UNCHANGED <<mu, nextMsg, flushed, since, collected, gens, maxGap, outsideCollector>>

\* flush as the mutant that takes the units but leaves the entry in the map
FlushLockNoDelete(f) ==
    /\ fl[f].pc = "lock"
    /\ mu = 0
    /\ mu' = f
    /\ LET g == fl[f].gid IN
         IF g \in DOMAIN groups
           THEN /\ groups' = [groups EXCEPT ![g].timer = NoTimer]
                /\ fl' = [fl EXCEPT ![f] = [pc |-> "unlock", gid |-> g, ok |-> TRUE, re |-> FALSE,
                                            batch |-> groups[g].msgs, gen |-> groups[g].gen]]
           ELSE /\ groups' = groups
                /\ fl' = [fl EXCEPT ![f].pc = "unlock"]
    /\ UNCHANGED <<nFire, nextMsg, flushed, since, collected, gens, maxGap, outsideCollector>>

\* flush: c.mu.Lock() and the critical section: look the entry up and, when it
\* is there, delete it, stop its timer and take its units
FlushLock(f) ==
    /\ fl[f].pc = "lock"
    /\ mu = 0
    /\ mu' = f
    /\ LET g == fl[f].gid IN
         IF g \in DOMAIN groups
           THEN /\ groups' = MapDelete(groups, g)
                /\ fl' = [fl EXCEPT ![f] = [pc |-> "unlock", gid |-> g, ok |-> TRUE, re |-> FALSE,
                                            batch |-> groups[g].msgs, gen |-> groups[g].gen]]
           ELSE /\ groups' = groups
                /\ fl' = [fl EXCEPT ![f].pc = "unlock"]
    /\ UNCHANGED <<nFire, nextMsg, flushed, since, collected, gens, maxGap, outsideCollector>>

\* flush as the mutant that keeps the mutex until the function returns (defer c.mu.Unlock())
FlushUnlockDeferred(f) ==
    /\ fl[f].pc = "unlock"
    /\ mu = f
    /\ mu' = IF fl[f].ok /\ Len(fl[f].batch) > 0 THEN f ELSE 0
    /\ fl' = [fl EXCEPT ![f].pc = IF fl[f].ok /\ Len(fl[f].batch) > 0 THEN "call" ELSE "done"]
    /\ UNCHANGED <<groups, nFire, nextMsg, flushed, since, collected, gens, maxGap, outsideCollector>>

\* flush as the mutant that invokes the callback whatever the lookup found
FlushUnlockAlwaysCall(f) ==
    /\ fl[f].pc = "unlock"
    /\ mu = f
    /\ mu' = 0
    /\ fl' = [fl EXCEPT ![f].pc = "call"]
    /\ UNCHANGED <<groups, nFire, nextMsg, flushed, since, collected, gens, maxGap, outsideCollector>>

\* flush: c.mu.Unlock(), then the test that guards the callback
FlushUnlock(f) ==
    /\ fl[f].pc = "unlock"
    /\ mu = f
    /\ mu' = 0
    /\ fl' = [fl EXCEPT ![f].pc = IF fl[f].ok /\ Len(fl[f].batch) > 0 THEN "call" ELSE "done"]
    /\ UNCHANGED <<groups, nFire, nextMsg, flushed, since, collected, gens, maxGap, outsideCollector>>

\* flush: c.OnFlush(groupID, batch) is invoked; the units are the callback's from here on
FlushCall(f) ==
    /\ fl[f].pc = "call"
    /\ fl' = [fl EXCEPT ![f] = [NoFlush EXCEPT !.pc = "incall", !.gid = fl[f].gid, !.ok = fl[f].ok]]
    /\ flushed' = Append(flushed, [gid |-> fl[f].gid, batch |-> fl[f].batch, gen |-> fl[f].gen,
                                   since |-> since[fl[f].gid], by |-> f])
    /\ UNCHANGED <<mu, groups, nFire, nextMsg, since, collected, gens, maxGap, outsideCollector>>

\* the running callback re-enters the collector: it calls Collect for group g
CallbackCollect(f, g) ==
    /\ fl[f].pc = "incall"
    /\ CollectBody(g)
    /\ fl' = [fl EXCEPT ![f].re = TRUE]
    /\ UNCHANGED <<mu, nFire, flushed, outsideCollector>>

\* the callback returns and flush with it
FlushReturn(f) ==
    /\ fl[f].pc = "incall"
    /\ fl' = [fl EXCEPT ![f].pc = "done", ![f].re = FALSE]
    /\ mu' = IF mu = f THEN 0 ELSE mu
    /\ UNCHANGED <<groups, nFire, nextMsg, flushed, since, collected, gens, maxGap, outsideCollector>>

\* time passes: one tick less is left on every active timer, one tick more
\* has passed since every group's most recent Collect
Tick ==
    /\ groups' = [g \in DOMAIN groups |->
                    [groups[g] EXCEPT !.timer.left = IF groups[g].timer.active THEN Max(@ - 1, 0) ELSE @]]
    /\ since' = [g \in Groups |-> IF since[g] + 1 < Delay THEN since[g] + 1 ELSE Delay]
    /\ UNCHANGED <<mu, fl, nFire, nextMsg, flushed, collected, gens, maxGap, outsideCollector>>

(***************************************************************************)
(* App.processMessageBatch and the karakeep Client.                        *)
(***************************************************************************)
\* most attachments ExtractAttachments returns for a batch
MaxAtt == 2
\* the waiters' timeout, counted in polling intervals
PollTimeout == 2
\* the longest a remote read of a waiter takes, in clock ticks
MaxRead == 3
\* number of updates the webhook receives
MaxUpdates == 3
\* most runes of a text handed to SliceByUTF16
MaxRunes == 3
\* width of Go's int in the model
IntBits == 4
\* most entities of a text
MaxEntities == 2
\* most units of a media group
MaxUnits == 2

\* the ceiling used when MaxUploadBytes is not positive (50 << 20 bytes), in
\* units of 25 MiB
DefaultMaxUpload == 2

\* what a batch is processed with.  cred is the user's stored credential:
\* absent, present but not decryptable, decryptable.  msg is the
\* representative unit as ClassifyMessage sees it: media present, text or
\* caption non-empty, number of extracted URLs, text equal to its only URL.
\* atts are the attachments of the batch by Attachment.SizeBytes, their
\* declared size in units of 25 MiB: unknown (0), exactly the default
\* ceiling, above every ceiling.  maxUpload is App.MaxUploadBytes as
\* configured: negative, zero, below the default.
Inputs ==
    {i \in [userErr : BOOLEAN, server : BOOLEAN, cred : {"none", "corrupt", "ok"}, clientOk : BOOLEAN,
            msg : [hasMedia : BOOLEAN, hasText : BOOLEAN, nUrls : 0..2, textIsUrl : BOOLEAN],
            atts : UNION {[1..n -> {0, DefaultMaxUpload, DefaultMaxUpload + 1}] : n \in 0..MaxAtt},
            maxUpload : {0 - 1, 0, DefaultMaxUpload - 1}] :
        /\ (i.msg.nUrls > 0 => i.msg.hasText)
        /\ (i.msg.textIsUrl => i.msg.nUrls = 1)
        /\ (i.msg.hasMedia <=> Len(i.atts) > 0)
        /\ (Len(i.atts) = 0 => i.maxUpload = 0)
        /\ (i.userErr => (~i.server /\ i.cred = "none"))
        /\ (~i.clientOk => (i.server /\ i.cred = "ok"))}

\* ClassifyMessage as the mutant without the kind file
ClassifyMessageNoFile(m) ==
    IF m.nUrls = 1 /\ ~m.hasMedia
      THEN [kind |-> "bookmark", hasURL |-> TRUE, hasNotes |-> ~m.textIsUrl, hasText |-> FALSE,
            nURLs |-> IF m.textIsUrl THEN 0 ELSE 1]
      ELSE [kind |-> "note", hasURL |-> FALSE, hasNotes |-> FALSE, hasText |-> m.hasText,
            nURLs |-> m.nUrls]

\* classifier.ClassifyMessage, on the shape of the unit
ClassifyMessage(m) ==
    IF m.hasMedia /\ ~m.hasText /\ m.nUrls = 0
      THEN [kind |-> "file", hasURL |-> FALSE, hasNotes |-> FALSE, hasText |-> FALSE, nURLs |-> 0]
    ELSE IF m.hasMedia
      THEN [kind |-> "note", hasURL |-> FALSE, hasNotes |-> FALSE, hasText |-> m.hasText, nURLs |-> m.nUrls]
    ELSE IF m.nUrls = 0
      THEN [kind |-> "note", hasURL |-> FALSE, hasNotes |-> FALSE, hasText |-> m.hasText, nURLs |-> 0]
    ELSE IF m.nUrls = 1
      THEN IF m.textIsUrl
             THEN [kind |-> "bookmark", hasURL |-> TRUE, hasNotes |-> FALSE, hasText |-> FALSE, nURLs |-> 0]
             ELSE [kind |-> "bookmark", hasURL |-> TRUE, hasNotes |-> TRUE, hasText |-> FALSE, nURLs |-> 1]
    ELSE [kind |-> "note", hasURL |-> FALSE, hasNotes |-> FALSE, hasText |-> m.hasText, nURLs |-> m.nUrls]

NoResult == [kind |-> "none", hasURL |-> FALSE, hasNotes |-> FALSE, hasText |-> FALSE, nURLs |-> 0]

\* Store.DecryptAPIKey: nothing stored gives ok = false without error, a
\* stored value that does not decode or decrypt gives an error
DecryptAPIKey(cred) ==
    [ok |-> cred = "ok", err |-> cred = "corrupt"]

\* the calls of the remote bookmarking API
RemoteOps == {"create_text", "create_link", "upload", "attach", "summarize", "get"}
CreateOps == {"create_text", "create_link"}

\* pickPrefix("")
DefaultPrefix == "/api/v1"

\* Client.altPrefix
AltPrefix(p) ==
    CASE p = "/api/v1" -> "/api"
      [] p = "/api" -> "/api/v1"
      [] OTHER -> "/api/v1"

\* Client.do as the mutant that sends the request again after any error status
DoResultsResendAnyStatus ==
    {d \in [r1 : {"neterr", "2xx", "404", "non2xx"}, r2 : {"none", "neterr", "2xx", "non2xx"}] :
        (d.r1 \in {"404", "non2xx"}) <=> (d.r2 # "none")}

\* Client.do: what one call of do can meet. r1 is the outcome of the request
\* (transport error, 2xx, 404, another status); after a 404, and only then,
\* the request is sent once more under the alternate prefix, with outcome r2
DoResults ==
    {d \in [r1 : {"neterr", "2xx", "404", "non2xx"}, r2 : {"none", "neterr", "2xx", "non2xx"}] :
        (d.r1 = "404") <=> (d.r2 # "none")}

\* do returns an error unless one of its requests was answered 2xx
DoErr(d) == ~(d.r1 = "2xx" \/ d.r2 = "2xx")
\* number of c.http.Do calls made by one call of do
DoRequests(d) == IF d.r2 = "none" THEN 1 ELSE 2
\* c.apiPrefix after the call: switched when the resend was made
DoPrefix(d, p) == IF d.r2 = "none" THEN p ELSE AltPrefix(p)
\* first answers after which do sent the request again
DoResent(d) == IF d.r2 = "none" THEN {} ELSE {d.r1}

\* Client.CreateBookmark(url, "", notes): a POST, and for a link with notes
\* whose POST returned an identifier a best-effort PATCH of the notes
\* (UpdateBookmark), whose outcome is dropped
CreateBookmark(withURL, withNotes, post, id, patch) ==
    LET patched == withURL /\ ~DoErr(post) /\ id /\ withNotes IN
    [err |-> DoErr(post),
     id |-> ~DoErr(post) /\ id,
     requests |-> DoRequests(post) + (IF patched THEN DoRequests(patch) ELSE 0),
     prefix |-> IF patched THEN DoPrefix(patch, DoPrefix(post, apiPrefix)) ELSE DoPrefix(post, apiPrefix),
     resent |-> DoResent(post) \cup (IF patched THEN DoResent(patch) ELSE {})]

\* the bookkeeping of one remote call op that made n HTTP requests
Http(op, n, rs, p) ==
    /\ httpMax' = [httpMax EXCEPT ![op] = IF n > @ THEN n ELSE @]
    /\ resent' = resent \cup rs
    /\ apiPrefix' = p

NoHttp == UNCHANGED <<httpMax, resent, apiPrefix>>

BatchInit ==
    /\ inp \in Inputs
    /\ pc = "start"
    /\ res = NoResult
    /\ apiPrefix = DefaultPrefix
    /\ hasID = FALSE
    /\ attIdx = 1
    /\ elapsed = 0
    /\ lastSuccess = "old"
    /\ events = <<>>
    /\ firstCreate = "none"
    /\ submitErr = FALSE
    /\ httpMax = [op \in RemoteOps |-> 0]
    /\ resent = {}
    /\ editFailed = {}

\* no batch is running
BatchIdle ==
    /\ inp = [userErr |-> FALSE, server |-> FALSE, cred |-> "none", clientOk |-> TRUE,
              msg |-> [hasMedia |-> FALSE, hasText |-> FALSE, nUrls |-> 0, textIsUrl |-> FALSE],
              atts |-> <<>>, maxUpload |-> 0]
    /\ pc = "idle"
    /\ res = NoResult
    /\ apiPrefix = DefaultPrefix
    /\ hasID = FALSE
    /\ attIdx = 1
    /\ elapsed = 0
    /\ lastSuccess = "old"
    /\ events = <<>>
    /\ firstCreate = "none"
    /\ submitErr = FALSE
    /\ httpMax = [op \in RemoteOps |-> 0]
    /\ resent = {}
    /\ editFailed = {}

\* the texts with which the acknowledgment is edited
EditNames ==
    {"edit_config", "edit_error", "edit_size", "edit_download", "edit_upload", "edit_noasset",
     "edit_attach", "edit_saved", "edit_plain", "edit_timeout", "edit_final", "edit_not_ready"}

\* App.editAck, for the edits a step has made: Bot.Send of an edit may return
\* an error, which editAck logs and returns and which the caller drops
EditAck ==
    \E failed \in SUBSET ({events'[i] : i \in (Len(events) + 1)..Len(events')} \cap EditNames) :
        editFailed' = editFailed \cup failed

\* processMessageBatch up to the classification: GetUser, DecryptAPIKey, the
\* configuration test with its instructive reply, ClassifyMessage
Precheck ==
    /\ pc = "start"
    /\ IF inp.userErr \/ DecryptAPIKey(inp.cred).err
         THEN /\ pc' = "done"
              /\ UNCHANGED <<events, res>>
       ELSE IF ~inp.server \/ ~DecryptAPIKey(inp.cred).ok
         THEN /\ pc' = "done"
              /\ events' = Append(events, "reply")
              /\ res' = res
       ELSE /\ pc' = "ack"
            /\ res' = ClassifyMessage(inp.msg)
            /\ events' = events
    /\ NoHttp
    /\ UNCHANGED <<outsideBatch, inp, hasID, attIdx, elapsed, lastSuccess, firstCreate, submitErr>>
    /\ EditAck

\* the acknowledgment as the mutant that goes on when the send failed
SendAckIgnoreError ==
    /\ pc = "ack"
    /\ \E sent \in BOOLEAN :
         IF ~sent
           THEN /\ events' = Append(events, "ack_failed")
                /\ pc' = "create"
         ELSE IF ~inp.clientOk
           THEN /\ events' = events \o <<"ack", "edit_config">>
                /\ pc' = "done"
         ELSE /\ events' = Append(events, "ack")
              /\ pc' = "create"
    /\ NoHttp
    /\ UNCHANGED <<outsideBatch, inp, res, hasID, attIdx, elapsed, lastSuccess, firstCreate, submitErr>>
    /\ EditAck

\* a.Bot.Send of the acknowledgment, which ends the batch when it fails, and
\* karakeep.NewClient, whose error is shown by an edit and ends the batch
SendAck ==
    /\ pc = "ack"
    /\ \E sent \in BOOLEAN :
         IF ~sent
           THEN /\ events' = Append(events, "ack_failed")
                /\ pc' = "done"
         ELSE IF ~inp.clientOk
           THEN /\ events' = events \o <<"ack", "edit_config">>
                /\ pc' = "done"
         ELSE /\ events' = Append(events, "ack")
              /\ pc' = "create"
    /\ NoHttp
    /\ UNCHANGED <<outsideBatch, inp, res, hasID, attIdx, elapsed, lastSuccess, firstCreate, submitErr>>
    /\ EditAck

\* the note fallback as the mutant that retries after every failed create
NeedFallbackAnyFailure(kind, err, nURLs) ==
    kind = "note" /\ err

\* the test that sends a failed note create again with the first URL
NeedFallback(kind, err, nURLs) ==
    kind = "note" /\ err /\ nURLs > 0

\* where the batch goes after a create call that returned c
AfterCreate(c) ==
    /\ hasID' = c.id
    /\ submitErr' = c.err
    /\ pc' = IF c.err THEN "create_failed"
             ELSE IF c.id /\ Len(inp.atts) > 0 THEN "download"
             ELSE "saved"

\* the create call of the switch on res.Kind: a link with the notes for a
\* bookmark, the text for a note, the media label for a file
Create ==
    /\ pc = "create"
    /\ \E post \in DoResults, id \in BOOLEAN, patch \in DoResults :
         LET link == res.kind = "bookmark"
             op == IF link THEN "create_link" ELSE "create_text"
             c == CreateBookmark(link, IF link THEN res.hasNotes ELSE TRUE, post, id, patch)
         IN /\ events' = Append(events, op)
            /\ Http(op, c.requests, c.resent, c.prefix)
            /\ firstCreate' = IF c.err THEN "err" ELSE "ok"
            /\ IF NeedFallback(res.kind, c.err, res.nURLs)
                 THEN /\ pc' = "create_fallback"
                      /\ UNCHANGED <<hasID, submitErr>>
                 ELSE AfterCreate(c)
    /\ UNCHANGED <<outsideBatch, inp, res, attIdx, elapsed, lastSuccess>>
    /\ EditAck

\* the second create of a note: the first URL as a link, the text as notes
CreateFallback ==
    /\ pc = "create_fallback"
    /\ \E post \in DoResults, id \in BOOLEAN, patch \in DoResults :
         LET c == CreateBookmark(TRUE, res.hasText, post, id, patch)
         IN /\ events' = Append(events, "create_link")
            /\ Http("create_link", c.requests, c.resent, c.prefix)
            /\ AfterCreate(c)
    /\ UNCHANGED <<outsideBatch, inp, res, attIdx, elapsed, lastSuccess, firstCreate>>
    /\ EditAck

\* the failed submission as the mutant that does not return after its edit
ReportCreateErrorNoReturn ==
    /\ pc = "create_failed"
    /\ events' = Append(events, "edit_error")
    /\ pc' = "saved"
    /\ NoHttp
    /\ UNCHANGED <<outsideBatch, inp, res, hasID, attIdx, elapsed, lastSuccess, firstCreate, submitErr>>
    /\ EditAck

\* err != nil after the create: the acknowledgment is edited with
\* userFacingKarakeepError and the batch returns
ReportCreateError ==
    /\ pc = "create_failed"
    /\ events' = Append(events, "edit_error")
    /\ pc' = "done"
    /\ NoHttp
    /\ UNCHANGED <<outsideBatch, inp, res, hasID, attIdx, elapsed, lastSuccess, firstCreate, submitErr>>
    /\ EditAck

\* the ceiling as the mutant that ignores the configured MaxUploadBytes
MaxBytesDefaultOnly(m) == DefaultMaxUpload

\* maxBytes := a.MaxUploadBytes, replaced by the default when not positive
MaxBytes(m) == IF m <= 0 THEN DefaultMaxUpload ELSE m

\* the size test of the attachment loop: a declared size above the ceiling
TooBig(size, maxBytes) == size > 0 /\ size > maxBytes

\* one attachment: the size test against the ceiling, then DownloadFileByID
Download ==
    /\ pc = "download"
    /\ IF TooBig(inp.atts[attIdx], MaxBytes(inp.maxUpload))
         THEN /\ events' = Append(events, "edit_size")
              /\ pc' = "done"
         ELSE \E ok \in BOOLEAN :
                IF ok THEN /\ events' = Append(events, "download")
                           /\ pc' = "upload"
                      ELSE /\ events' = events \o <<"download", "edit_download">>
                           /\ pc' = "done"
    /\ NoHttp
    /\ UNCHANGED <<outsideBatch, inp, res, hasID, attIdx, elapsed, lastSuccess, firstCreate, submitErr>>
    /\ EditAck

\* the upload as the mutant that goes on to attach when the upload failed
UploadIgnoreError ==
    /\ pc = "upload"
    /\ \E d \in DoResults, assetID \in BOOLEAN :
         /\ Http("upload", DoRequests(d), DoResent(d), DoPrefix(d, apiPrefix))
         /\ IF DoErr(d)
              THEN /\ events' = events \o <<"upload", "edit_upload">>
                   /\ pc' = "attach"
            ELSE IF ~assetID
              THEN /\ events' = events \o <<"upload", "edit_noasset">>
                   /\ pc' = "done"
            ELSE /\ events' = Append(events, "upload")
                 /\ pc' = "attach"
    /\ UNCHANGED <<outsideBatch, inp, res, hasID, attIdx, elapsed, lastSuccess, firstCreate, submitErr>>
    /\ EditAck

\* client.UploadAsset: an error or an asset without identifier ends the batch
Upload ==
    /\ pc = "upload"
    /\ \E d \in DoResults, assetID \in BOOLEAN :
         /\ Http("upload", DoRequests(d), DoResent(d), DoPrefix(d, apiPrefix))
         /\ IF DoErr(d)
              THEN /\ events' = events \o <<"upload", "edit_upload">>
                   /\ pc' = "done"
            ELSE IF ~assetID
              THEN /\ events' = events \o <<"upload", "edit_noasset">>
                   /\ pc' = "done"
            ELSE /\ events' = Append(events, "upload")
                 /\ pc' = "attach"
    /\ UNCHANGED <<outsideBatch, inp, res, hasID, attIdx, elapsed, lastSuccess, firstCreate, submitErr>>
    /\ EditAck

\* client.AttachAsset, then the next attachment of the loop
Attach ==
    /\ pc = "attach"
    /\ \E d \in DoResults :
         /\ Http("attach", DoRequests(d), DoResent(d), DoPrefix(d, apiPrefix))
         /\ IF DoErr(d)
              THEN /\ events' = events \o <<"attach", "edit_attach">>
                   /\ pc' = "done"
                   /\ attIdx' = attIdx
            ELSE IF attIdx < Len(inp.atts)
              THEN /\ events' = Append(events, "attach")
                   /\ pc' = "download"
                   /\ attIdx' = attIdx + 1
            ELSE /\ events' = Append(events, "attach")
                 /\ pc' = "saved"
                 /\ attIdx' = attIdx
    /\ UNCHANGED <<outsideBatch, inp, res, hasID, elapsed, lastSuccess, firstCreate, submitErr>>
    /\ EditAck

\* the provisional success as the mutant that returns when its edit failed
SavedReturnsOnEditError ==
    /\ pc = "saved"
    /\ lastSuccess' = IF hasID THEN "new" ELSE "empty"
    /\ elapsed' = 0
    /\ \E failed \in BOOLEAN :
         IF failed
           THEN /\ events' = events \o <<"set_last_success", "edit_saved">>
                /\ editFailed' = editFailed \cup {"edit_saved"}
                /\ pc' = "done"
         ELSE IF ~hasID
           THEN /\ events' = events \o <<"set_last_success", "edit_saved", "edit_plain">>
                /\ editFailed' = editFailed
                /\ pc' = "done"
         ELSE /\ events' = events \o <<"set_last_success", "edit_saved">>
              /\ editFailed' = editFailed
              /\ pc' = IF res.kind = "bookmark" THEN "extract_get" ELSE "summarize"
    /\ NoHttp
    /\ UNCHANGED <<outsideBatch, inp, res, hasID, attIdx, firstCreate, submitErr>>

\* the provisional success as the mutant that runs the extraction waiter for
\* every kind of batch
SavedAlwaysExtract ==
    /\ pc = "saved"
    /\ lastSuccess' = IF hasID THEN "new" ELSE "empty"
    /\ elapsed' = 0
    /\ IF ~hasID
         THEN /\ events' = events \o <<"set_last_success", "edit_saved", "edit_plain">>
              /\ pc' = "done"
         ELSE /\ events' = events \o <<"set_last_success", "edit_saved">>
              /\ pc' = "extract_get"
    /\ NoHttp
    /\ UNCHANGED <<outsideBatch, inp, res, hasID, attIdx, firstCreate, submitErr>>
    /\ EditAck

\* Store.SetLastSuccess and the provisional-success edit; a record without
\* identifier ends the batch with the plain success edit, otherwise the
\* waiters start: extraction for a bookmark, summary for the other kinds
Saved ==
    /\ pc = "saved"
    /\ lastSuccess' = IF hasID THEN "new" ELSE "empty"
    /\ elapsed' = 0
    /\ IF ~hasID
         THEN /\ events' = events \o <<"set_last_success", "edit_saved", "edit_plain">>
              /\ pc' = "done"
         ELSE /\ events' = events \o <<"set_last_success", "edit_saved">>
              /\ pc' = IF res.kind = "bookmark" THEN "extract_get" ELSE "summarize"
    /\ NoHttp
    /\ UNCHANGED <<outsideBatch, inp, res, hasID, attIdx, firstCreate, submitErr>>
    /\ EditAck

\* waitForExtractedContent: one GetBookmark and the readiness test
ExtractGet ==
    /\ pc = "extract_get"
    /\ \E d \in DoResults, ready \in BOOLEAN :
         /\ Http("get", DoRequests(d), DoResent(d), DoPrefix(d, apiPrefix))
         /\ events' = Append(events, "get")
         /\ IF ~DoErr(d) /\ ready
              THEN /\ pc' = "summarize"
                   /\ elapsed' = 0
              ELSE /\ pc' = "extract_wait"
                   /\ elapsed' = elapsed
    /\ UNCHANGED <<outsideBatch, inp, res, hasID, attIdx, lastSuccess, firstCreate, submitErr>>
    /\ EditAck

\* the extraction waiter as the mutant whose failure does not end the batch
ExtractWaitNoReturn ==
    /\ pc = "extract_wait"
    /\ IF elapsed > PollTimeout
         THEN /\ events' = Append(events, "edit_timeout")
              /\ pc' = "summarize"
              /\ elapsed' = 0
         ELSE /\ events' = events
              /\ pc' = "extract_get"
              /\ elapsed' = elapsed + 1
    /\ NoHttp
    /\ UNCHANGED <<outsideBatch, inp, res, hasID, attIdx, lastSuccess, firstCreate, submitErr>>
    /\ EditAck

\* waitForExtractedContent: the deadline test, whose failure ends the batch
\* with the timeout notice, and the wait for the next tick
ExtractWait ==
    /\ pc = "extract_wait"
    /\ IF elapsed > PollTimeout
         THEN /\ events' = Append(events, "edit_timeout")
              /\ pc' = "done"
              /\ elapsed' = elapsed
         ELSE /\ events' = events
              /\ pc' = "extract_get"
              /\ elapsed' = elapsed + 1
    /\ NoHttp
    /\ UNCHANGED <<outsideBatch, inp, res, hasID, attIdx, lastSuccess, firstCreate, submitErr>>
    /\ EditAck

\* waitForNonEmptySummary: client.Summarize, whose outcome is dropped
Summarize ==
    /\ pc = "summarize"
    /\ \E d \in DoResults :
         Http("summarize", DoRequests(d), DoResent(d), DoPrefix(d, apiPrefix))
    /\ events' = Append(events, "summarize")
    /\ pc' = "summary_get"
    /\ UNCHANGED <<outsideBatch, inp, res, hasID, attIdx, elapsed, lastSuccess, firstCreate, submitErr>>
    /\ EditAck

\* waitForNonEmptySummary: GetBookmark and the test of the summary; a usable
\* summary ends the batch with the final edit
SummaryGet ==
    /\ pc = "summary_get"
    /\ \E d \in DoResults, ready \in BOOLEAN :
         /\ Http("get", DoRequests(d), DoResent(d), DoPrefix(d, apiPrefix))
         /\ IF ~DoErr(d) /\ ready
              THEN /\ events' = events \o <<"get", "edit_final">>
                   /\ pc' = "done"
              ELSE /\ events' = Append(events, "get")
                   /\ pc' = "summary_wait"
    /\ UNCHANGED <<outsideBatch, inp, res, hasID, attIdx, elapsed, lastSuccess, firstCreate, submitErr>>
    /\ EditAck

\* the wait of waitForNonEmptySummary as the mutant without deadline
SummaryWaitNoDeadline ==
    /\ pc = "summary_wait"
    /\ events' = events
    /\ pc' = "summarize"
    /\ elapsed' = elapsed
    /\ NoHttp
    /\ UNCHANGED <<outsideBatch, inp, res, hasID, attIdx, lastSuccess, firstCreate, submitErr>>
    /\ EditAck

\* waitForNonEmptySummary: the deadline test, whose failure ends the batch
\* with the not-ready notice, and the wait for the next tick
SummaryWait ==
    /\ pc = "summary_wait"
    /\ IF elapsed > PollTimeout
         THEN /\ events' = Append(events, "edit_not_ready")
              /\ pc' = "done"
              /\ elapsed' = elapsed
         ELSE /\ events' = events
              /\ pc' = "summarize"
              /\ elapsed' = elapsed + 1
    /\ NoHttp
    /\ UNCHANGED <<outsideBatch, inp, res, hasID, attIdx, lastSuccess, firstCreate, submitErr>>
    /\ EditAck

(***************************************************************************)
(* The polling waiters waitForExtractedContent and waitForNonEmptySummary,  *)
(* with the clock, the ticker, the duration of the remote reads and the     *)
(* cancellation of ctx.                                                     *)
(***************************************************************************)
\* the interval of the waiters' ticker, in clock ticks
PollInterval == 2
\* the waiters' timeout, in clock ticks: deadline := time.Now().Add(timeout)
WaitTimeout == PollTimeout * PollInterval

\* the positions at which the waiter is inside a remote read
Reads == {"summarize", "get"}
\* the first remote read of a poll iteration: waitForNonEmptySummary calls
\* Summarize before GetBookmark, waitForExtractedContent only GetBookmark
FirstRead(k) == IF k = "summary" THEN "summarize" ELSE "get"

\* unicode.IsSpace, as strings.TrimSpace uses it
IsSpace(c) == c = " "
\* strings.TrimSpace: leading and trailing white space removed
RECURSIVE TrimLeft(_)
TrimLeft(s) == IF s # <<>> /\ IsSpace(Head(s)) THEN TrimLeft(Tail(s)) ELSE s
RECURSIVE TrimRight(_)
TrimRight(s) ==
    IF s # <<>> /\ IsSpace(s[Len(s)]) THEN TrimRight(SubSeq(s, 1, Len(s) - 1)) ELSE s
TrimSpace(s) == TrimRight(TrimLeft(s))

\* most chunks of a summary text
MaxSummary == 2
\* most characters of the text of an error
MaxErrLen == 800
\* most containers around a string of a record
MaxNest == 8
\* a field of a summary object: a string, or absent or of another type
NotAString == [isString |-> FALSE, s |-> <<>>]
FieldValues ==
    {NotAString} \cup {[isString |-> TRUE, s |-> t] : t \in {<<>>, <<"w">>, <<"Content Is Empty">>}}
\* Bookmark.Summary, the raw JSON of the field summary: absent, null, a
\* string, an object with the fields text and summary, anything else.  A
\* text is made of at most MaxSummary chunks: white space, a word, and the
\* two placeholder phrases, one of them with capitals
SummaryOf(form, t, text, summary) == [form |-> form, s |-> t, text |-> text, summary |-> summary]
AbsentSummary == SummaryOf("absent", <<>>, NotAString, NotAString)
Summaries ==
    {AbsentSummary}
    \cup {SummaryOf("null", <<>>, NotAString, NotAString), SummaryOf("other", <<>>, NotAString, NotAString)}
    \cup {SummaryOf("string", t, NotAString, NotAString) :
            t \in UNION {[1..k -> {" ", "w", "Content Is Empty", "no information to summarize"}] :
                            k \in 0..MaxSummary}}
    \cup {SummaryOf("object", <<>>, f, g) : f \in FieldValues, g \in FieldValues}

\* Bookmark.SummaryText: the raw summary decoded to a text
SummaryText(summary) ==
    IF summary.form = "absent" THEN <<>>
    ELSE IF summary.form = "null" THEN TrimSpace(<<>>)
    ELSE IF summary.form = "string" THEN TrimSpace(summary.s)
    ELSE IF summary.form = "object" /\ summary.text.isString THEN TrimSpace(summary.text.s)
    ELSE IF summary.form = "object" /\ summary.summary.isString THEN TrimSpace(summary.summary.s)
    ELSE <<>>

\* strings.ToLower, chunk by chunk
ToLower(t) == [i \in DOMAIN t |-> IF t[i] = "Content Is Empty" THEN "content is empty" ELSE t[i]]
\* strings.Contains, for a phrase that is one chunk
Contains(t, phrase) == \E i \in DOMAIN t : t[i] = phrase

\* looksEmptySummary as the mutant that compares without lowering
looksEmptySummaryCaseSensitive(t) ==
    Contains(t, "content is empty") \/ Contains(t, "no information to summarize")

\* looksEmptySummary
looksEmptySummary(t) ==
    Contains(ToLower(t), "content is empty") \/ Contains(ToLower(t), "no information to summarize")

\* a record GetBookmark returns: content tells whether
\* hasExtractedContent(got.Raw) holds
BookmarkOf(content, summary) == [content |-> content, summary |-> summary]
\* karakeep.Bookmark{}
NoBookmark == BookmarkOf(FALSE, AbsentSummary)
\* a read that returned an error
FailedRead == [err |-> TRUE, got |-> NoBookmark]

\* the readiness test of the waiter of kind k on the record a read returned
Ready(k, got) ==
    IF k = "summary"
      THEN LET t == TrimSpace(SummaryText(got.summary))
           IN  t # <<>> /\ ~looksEmptySummary(t)
      ELSE got.content

\* no waiter runs
WaiterIdle ==
    /\ wkind = "extract"
    /\ wpc = "idle"
    /\ wclock = 0
    /\ wtick = FALSE
    /\ wread = 0
    /\ wlive = TRUE
    /\ wcancel = "none"
    /\ wresult = FALSE
    /\ wlate = 0
    /\ wcalls = <<>>
    /\ wsumErr = FALSE
    /\ wgot = [err |-> FALSE, got |-> NoBookmark]
    /\ wret = NoBookmark

\* a waiter has been called: the deadline is set, the ticker is started and
\* the first iteration is in its first read
WaiterInit ==
    /\ wkind \in {"extract", "summary"}
    /\ wpc = FirstRead(wkind)
    /\ wclock = 0
    /\ wtick = FALSE
    /\ wread = 0
    /\ wlive = TRUE
    /\ wcancel = "none"
    /\ wresult = FALSE
    /\ wlate = 0
    /\ wcalls = <<FirstRead(wkind)>>
    /\ wsumErr = FALSE
    /\ wgot = [err |-> FALSE, got |-> NoBookmark]
    /\ wret = NoBookmark

\* a poll iteration starts: its first read is called with ctx as it is now
StartIteration ==
    /\ wpc' = FirstRead(wkind)
    /\ wread' = 0
    /\ wlive' = (wcancel = "none")
    /\ wlate' = IF wcancel = "none" THEN wlate ELSE wlate + 1
    /\ wcalls' = Append(wcalls, FirstRead(wkind))

\* waitForNonEmptySummary: client.Summarize returns; its outcome is dropped
\* and GetBookmark is called
SummarizeReturns ==
    /\ wpc = "summarize"
    /\ wpc' = "get"
    /\ wread' = 0
    /\ wlive' = (wcancel = "none")
    /\ \E err \in (IF wlive THEN BOOLEAN ELSE {TRUE}) : wsumErr' = err
    /\ wcalls' = Append(wcalls, "get")
    /\ UNCHANGED <<wkind, wclock, wtick, wcancel, wresult, wlate, wgot, wret, outsideWaiter>>

\* the outcomes of GetBookmark: a record, or the read failed; a read called
\* with a cancelled ctx fails
GetOutcomes ==
    IF ~wlive THEN {FailedRead}
    ELSE IF wkind = "summary"
      THEN {[err |-> FALSE, got |-> BookmarkOf(TRUE, sm)] : sm \in Summaries} \cup {FailedRead}
    ELSE {[err |-> FALSE, got |-> BookmarkOf(c, AbsentSummary)] : c \in BOOLEAN} \cup {FailedRead}

\* client.GetBookmark returns: readiness returns true, otherwise the waiter
\* returns false when the deadline has passed (time.Now().After(deadline))
\* and goes to the select when it has not
GetReturns ==
    /\ wpc = "get"
    /\ \E o \in GetOutcomes :
         /\ wgot' = o
         /\ IF ~o.err /\ Ready(wkind, o.got)
              THEN /\ wpc' = "returned" /\ wresult' = TRUE
                   /\ wret' = IF wkind = "summary" THEN o.got ELSE wret
            ELSE IF wclock > WaitTimeout
              THEN wpc' = "returned" /\ wresult' = FALSE /\ wret' = NoBookmark
            ELSE wpc' = "select" /\ wresult' = wresult /\ wret' = wret
    /\ UNCHANGED <<wkind, wclock, wtick, wread, wlive, wcancel, wlate, wcalls, wsumErr, outsideWaiter>>

\* select, case <-t.C: the waiting tick is taken and the next iteration starts
SelectTick ==
    /\ wpc = "select"
    /\ wtick
    /\ wtick' = FALSE
    /\ StartIteration
    /\ UNCHANGED <<wkind, wclock, wcancel, wresult, wsumErr, wgot, wret, outsideWaiter>>

\* select, case <-ctx.Done(): the waiter returns false
SelectDone ==
    /\ wpc = "select"
    /\ wcancel # "none"
    /\ wpc' = "returned"
    /\ wresult' = FALSE
    /\ wret' = NoBookmark
    /\ UNCHANGED <<wkind, wclock, wtick, wread, wlive, wcancel, wlate, wcalls, wsumErr, wgot, outsideWaiter>>

\* the external cancellation signal fires while the waiter runs
Cancel ==
    /\ wpc \in Reads \cup {"select"}
    /\ wcancel = "none"
    /\ wcancel' = wpc
    /\ UNCHANGED <<wkind, wpc, wclock, wtick, wread, wlive, wresult, wlate, wcalls, wsumErr, wgot, wret, outsideWaiter>>

\* time passes while the waiter is in a read that has not taken MaxRead yet
\* (a read called with a cancelled ctx returns at once), or in the select
\* with no case ready; the ticker sends a tick at every multiple of the
\* interval, and drops it when one is waiting already
WaiterTick ==
    /\ \/ wpc \in Reads /\ wlive /\ wread < MaxRead
       \/ wpc = "select" /\ ~wtick /\ wcancel = "none"
    /\ wclock' = wclock + 1
    /\ wread' = IF wpc \in Reads THEN wread + 1 ELSE wread
    /\ wtick' = (wtick \/ (wclock + 1) % PollInterval = 0)
    /\ UNCHANGED <<wkind, wpc, wlive, wcancel, wresult, wlate, wcalls, wsumErr, wgot, wret, outsideWaiter>>

WaiterNext ==
    \/ SummarizeReturns
    \/ GetReturns
    \/ SelectTick
    \/ SelectDone
    \/ Cancel
    \/ WaiterTick

(***************************************************************************)
(* The goroutines that handle an update: the one NewWebhookHandler starts   *)
(* around OnUpdate, and the one HandleUpdate or HandleMediaGroup starts for *)
(* the batch.                                                               *)
(***************************************************************************)
Updates == 1..MaxUpdates
\* the process has started and no update has arrived
LaunchIdle ==
    /\ procUp = TRUE
    /\ upd = [u \in Updates |->
                [msg |-> [command |-> "", private |-> TRUE, grouped |-> FALSE], st |-> "none", did |-> {}]]

\* the webhook receives update u: go func(u) { defer recover...; OnUpdate(u) };
\* m tells of its message the command it is (msg.IsCommand, msg.Command),
\* whether its chat is private and whether it has a MediaGroupID
Receive(u, m) ==
    /\ procUp
    /\ upd[u].st = "none"
    /\ \A v \in 1..(u - 1) : upd[v].st # "none"
    /\ upd' = [upd EXCEPT ![u] = [msg |-> m, st |-> "handler", did |-> {}]]
    /\ UNCHANGED <<procUp, outsideLaunch>>

\* HandleUpdate as the mutant that goes on after Collect
HandleUpdateNoReturnAfterCollect(m) ==
    IF m.command # ""
      THEN IF ~m.private THEN {"refused"}
           ELSE IF m.command \in {"server", "key"} THEN {"command", "store"}
           ELSE {"command"}
    ELSE IF m.grouped THEN {"collect", "batch"}
    ELSE {"batch"}

\* App.HandleUpdate, by what it does with the message: it refuses a command
\* outside a private chat, runs a command (cmdServer and cmdKey write the
\* store), hands the unit of a media group to Collect, or starts
\* processSingleMessage
HandleUpdate(m) ==
    IF m.command # ""
      THEN IF ~m.private THEN {"refused"}
           ELSE IF m.command \in {"server", "key"} THEN {"command", "store"}
           ELSE {"command"}
    ELSE IF m.grouped THEN {"collect"}
    ELSE {"batch"}

\* OnUpdate panics in the handler goroutine: its deferred recover catches
\* the panic and logs it
HandlerPanics(u) ==
    /\ procUp
    /\ upd[u].st = "handler"
    /\ upd' = [upd EXCEPT ![u].st = "recovered"]
    /\ UNCHANGED <<procUp, outsideLaunch>>

\* HandleUpdate returns: the command is answered, the unit of a media group
\* is handed to Collect, a single message gets its goroutine
\* (go a.processSingleMessage)
HandlerReturns(u) ==
    /\ procUp
    /\ upd[u].st = "handler"
    /\ upd' = [upd EXCEPT ![u].did = HandleUpdate(upd[u].msg),
                          ![u].st = IF "batch" \in HandleUpdate(upd[u].msg) THEN "batch"
                                    ELSE IF "collect" \in HandleUpdate(upd[u].msg) THEN "collected"
                                    ELSE "completed"]
    /\ UNCHANGED <<procUp, outsideLaunch>>

\* the collector's timer goroutine flushes the group: OnFlush is
\* HandleMediaGroup, which starts the batch's goroutine (go a.processMediaGroup)
FlushLaunches(u) ==
    /\ procUp
    /\ upd[u].st = "collected"
    /\ upd' = [upd EXCEPT ![u].st = "batch"]
    /\ UNCHANGED <<procUp, outsideLaunch>>

\* the batch's goroutine returns from processMessageBatch
BatchCompletes(u) ==
    /\ procUp
    /\ upd[u].st = "batch"
    /\ upd' = [upd EXCEPT ![u].st = "completed"]
    /\ UNCHANGED <<procUp, outsideLaunch>>

\* a panic inside the batch's goroutine: the goroutine was started by a bare
\* go statement and no function on its stack defers a recover, so the
\* runtime ends the process, and every goroutine with it
BatchPanics(u) ==
    /\ procUp
    /\ upd[u].st = "batch"
    /\ procUp' = FALSE
    /\ upd' = [v \in Updates |->
                 IF v = u THEN [upd[v] EXCEPT !.st = "panicked"]
                 ELSE IF upd[v].st \in {"handler", "collected", "batch"}
                   THEN [upd[v] EXCEPT !.st = "lost"]
                 ELSE upd[v]]
    /\ UNCHANGED outsideLaunch

LaunchNext ==
    \/ \E u \in Updates, c \in {"", "key", "help"}, p \in BOOLEAN, g \in BOOLEAN :
            /\ c = "" => p
            /\ c = "help" => (p /\ ~g)
            /\ Receive(u, [command |-> c, private |-> p, grouped |-> g])
    \/ \E u \in Updates : HandlerPanics(u)
    \/ \E u \in Updates : HandlerReturns(u)
    \/ \E u \in Updates : FlushLaunches(u)
    \/ \E u \in Updates : BatchCompletes(u)
    \/ \E u \in Updates : BatchPanics(u)

(***************************************************************************)
(* classifier.SliceByUTF16.                                                *)
(***************************************************************************)
\* Go's int, two's complement on IntBits bits
IntMin == 0 - 2 ^ (IntBits - 1)
GoInts == IntMin..(2 ^ (IntBits - 1) - 1)
\* the value an int holds after an addition whose exact result is x
WrapInt(x) == ((x - IntMin) % (2 ^ IntBits)) + IntMin

\* the for loop over the runes, from rune index ri (counted from 0) with the
\* running code-unit position curCU: the values of curCU, startRI and endRI
\* when the loop is left
RECURSIVE ScanRunes(_, _, _, _, _, _)
ScanRunes(runes, ri, curCU, startRI, startCU, endCU) ==
    IF ri >= Len(runes)
      THEN [curCU |-> curCU, startRI |-> startRI, endRI |-> Len(runes)]
      ELSE LET st == IF curCU >= startCU /\ startRI = Len(runes) THEN ri ELSE startRI
           IN IF curCU >= endCU
                THEN [curCU |-> curCU, startRI |-> st, endRI |-> ri]
                ELSE ScanRunes(runes, ri + 1, curCU + runes[ri + 1].units, st, startCU, endCU)

\* SliceByUTF16(s, off, length)
SliceByUTF16(s, off0, length0) ==
    LET off == IF off0 < 0 THEN 0 ELSE off0
        length == IF length0 < 0 THEN 0 ELSE length0
        startCU == off
        endCU == WrapInt(off + length)
        sc == ScanRunes(s, 0, 0, Len(s), startCU, endCU)
        startRI == IF startCU >= sc.curCU THEN Len(s) ELSE sc.startRI
        endRI == IF endCU >= sc.curCU THEN Len(s) ELSE sc.endRI
        from == IF startRI > endRI THEN endRI ELSE startRI
    IN SubSeq(s, from + 1, endRI)

\* no call of SliceByUTF16 is made
SliceIdle ==
    /\ stext = <<>>
    /\ soff = 0
    /\ slen = 0
    /\ spc = "idle"
    /\ sout = <<>>

\* SliceByUTF16 is about to be called with a text, an offset and a length
SliceInit ==
    /\ \E n \in 0..MaxRunes :
         \E w \in [1..n -> {1, 2}] : stext = [i \in 1..n |-> [ch |-> i, units |-> w[i]]]
    /\ soff \in GoInts
    /\ slen \in GoInts
    /\ spc = "call"
    /\ sout = <<>>

\* the call returns
SliceCall ==
    /\ spc = "call"
    /\ sout' = SliceByUTF16(stext, soff, slen)
    /\ spc' = "done"
    /\ UNCHANGED <<stext, soff, slen, cvars, bvars, wvars, lvars, kvars, gvars, hvars>>

(***************************************************************************)
(* classifier.ExtractURLs and classifier.ClassifyMessage on the text and    *)
(* the entities of a unit, and the create call processMessageBatch makes    *)
(* from the classification.                                                 *)
(***************************************************************************)
\* the characters of the texts: a letter, white space, a character of the
\* trailing-punctuation class, and a character outside the Basic
\* Multilingual Plane; the strings of at most n characters
StringsUpTo(n) == UNION {[1..k -> {"h", " ", ".", "E"}] : k \in 0..n}
\* UTF-16 code units of a character (utf16.RuneLen)
Units(c) == IF c = "E" THEN 2 ELSE 1

\* the character class of trailingPunctRE
IsTrailingPunct(c) == c = "."


\* trailingPunctRE.ReplaceAllString(u, ""): the run of punctuation that ends
\* the string is removed
RECURSIVE StripTrailingPunct(_)
StripTrailingPunct(s) ==
    IF s # <<>> /\ IsTrailingPunct(s[Len(s)])
      THEN StripTrailingPunct(SubSeq(s, 1, Len(s) - 1))
      ELSE s

\* []rune(s) as SliceByUTF16 sees it
RunesOf(s) == [i \in 1..Len(s) |-> [ch |-> i, units |-> Units(s[i])]]
\* SliceByUTF16 on a string: string(runes[startRI:endRI])
SliceString(s, off, length) ==
    LET r == SliceByUTF16(RunesOf(s), off, length)
    IN [i \in 1..Len(r) |-> s[r[i].ch]]

\* the closure add of ExtractURLs as the mutant that keeps duplicates
AddKeepDuplicates(out, u0) ==
    LET u == TrimSpace(StripTrailingPunct(TrimSpace(u0)))
    IN IF u = <<>> THEN out ELSE Append(out, u)

\* the closure add of ExtractURLs: the URL is trimmed, loses its trailing
\* punctuation, is trimmed again, and is appended unless it is empty or seen
Add(out, u0) ==
    LET u == TrimSpace(StripTrailingPunct(TrimSpace(u0)))
    IN IF u = <<>> THEN out
       ELSE IF \E i \in 1..Len(out) : out[i] = u THEN out
       ELSE Append(out, u)

\* ExtractURLs: the loop over the entities, from entity i with the list out
RECURSIVE ExtractLoop(_, _, _, _)
ExtractLoop(text, entities, i, out) ==
    IF i > Len(entities) THEN out
    ELSE LET e == entities[i]
         IN ExtractLoop(text, entities, i + 1,
                CASE e.type = "text_link" -> Add(out, e.url)
                  [] e.type = "url" -> Add(out, SliceString(text, e.offset, e.length))
                  [] OTHER -> out)
ExtractURLs(text, entities) == ExtractLoop(text, entities, 1, <<>>)

\* ExtractURLsFromMessage: the text with its entities when there is a text,
\* else the caption with its entities
ExtractURLsFromMessage(m) ==
    IF m.text # <<>> THEN ExtractURLs(m.text, m.entities)
    ELSE IF m.caption # <<>> THEN ExtractURLs(m.caption, m.captionEntities)
    ELSE <<>>

firstNonEmpty(a, b) == IF TrimSpace(a) # <<>> THEN a ELSE b
messageHasMedia(m) == m.hasMedia

\* classifier.Result; a string that is not set is empty, a list that is not
\* set has no element
Result(kind, url, notes, text, urls, hasMedia) ==
    [kind |-> kind, url |-> url, notes |-> notes, text |-> text, urls |-> urls,
     hasMedia |-> hasMedia]

\* ClassifyMessage as the mutant that carries the text as notes of every
\* bookmark
ClassifyUnitNotesAlways(m) ==
    LET text == TrimSpace(firstNonEmpty(m.text, m.caption))
        urls == ExtractURLsFromMessage(m)
        hasMedia == messageHasMedia(m)
    IN IF hasMedia /\ text = <<>> /\ Len(urls) = 0
         THEN Result("file", <<>>, <<>>, <<>>, <<>>, TRUE)
       ELSE IF hasMedia
         THEN Result("note", <<>>, <<>>, text, urls, TRUE)
       ELSE IF Len(urls) = 1
         THEN Result("bookmark", TrimSpace(urls[1]), text, <<>>, urls, FALSE)
       ELSE Result("note", <<>>, <<>>, text, urls, FALSE)

\* classifier.ClassifyMessage, on the unit itself
ClassifyUnit(m) ==
    LET text == TrimSpace(firstNonEmpty(m.text, m.caption))
        urls == ExtractURLsFromMessage(m)
        hasMedia == messageHasMedia(m)
    IN IF hasMedia /\ text = <<>> /\ Len(urls) = 0
         THEN Result("file", <<>>, <<>>, <<>>, <<>>, TRUE)
       ELSE IF hasMedia
         THEN Result("note", <<>>, <<>>, text, urls, TRUE)
       ELSE IF Len(urls) = 0
         THEN Result("note", <<>>, <<>>, text, urls, FALSE)
       ELSE IF Len(urls) = 1
         THEN LET onlyURL == TrimSpace(urls[1])
              IN IF text = onlyURL
                   THEN Result("bookmark", onlyURL, <<>>, <<>>, <<>>, FALSE)
                   ELSE Result("bookmark", onlyURL, text, <<>>, urls, FALSE)
       ELSE Result("note", <<>>, <<>>, text, urls, FALSE)

\* code units of the first n characters of s
RECURSIVE UnitsUpTo(_, _)
UnitsUpTo(s, n) == IF n = 0 THEN 0 ELSE UnitsUpTo(s, n - 1) + Units(s[n])

\* the entities a text can carry: a url or a text_link entity over a run of
\* its characters, with Offset and Length in UTF-16 code units;
\* MessageEntity.URL of a text_link entity is a URL with trailing
\* punctuation, or white space
EntitiesOf(s) ==
    {[type |-> t, offset |-> UnitsUpTo(s, i - 1),
      length |-> UnitsUpTo(s, j) - UnitsUpTo(s, i - 1), url |-> u] :
        <<t, u>> \in ({<<"url", <<>>>>} \cup {<<"text_link", l>> : l \in {<<"h", ".">>, <<" ">>}}),
        <<i, j>> \in {ij \in (1..Len(s)) \X (1..Len(s)) : ij[1] <= ij[2]}}

\* the entity lists of a text: at most MaxEntities entities, in the order
\* of their offsets, without overlap
EntityLists(s) ==
    UNION {{es \in [1..n -> EntitiesOf(s)] :
              \A k \in 1..(n - 1) : es[k].offset + es[k].length <= es[k + 1].offset} :
           n \in 0..MaxEntities}

\* a unit handed to ClassifyMessage: a unit with media carries its words as
\* caption, a unit without as text
Message(media, d, body, es) ==
    [hasMedia |-> media, date |-> d,
     text |-> IF media THEN <<>> ELSE body,
     entities |-> IF media THEN <<>> ELSE es,
     caption |-> IF media THEN body ELSE <<>>,
     captionEntities |-> IF media THEN es ELSE <<>>]

NoClassified == Result("none", <<>>, <<>>, <<>>, <<>>, FALSE)

\* no unit is being classified
ClassifyIdle ==
    /\ cmsg = Message(FALSE, "d1", <<>>, <<>>)
    /\ cpc = "idle"
    /\ curls = <<>>
    /\ cres = NoClassified
    /\ ccreates = <<>>

\* a unit is handed to ClassifyMessage; its Message.Date varies where it
\* shows, in the label of a file record, which is made of a unit with media
\* and without words
ClassifyInit ==
    /\ \E media \in BOOLEAN, body \in StringsUpTo(MaxRunes) :
         \E d \in (IF media /\ TrimSpace(body) = <<>> THEN {"d1", "d2"} ELSE {"d1"}),
            es \in EntityLists(body) : cmsg = Message(media, d, body, es)
    /\ cpc = "call"
    /\ curls = <<>>
    /\ cres = NoClassified
    /\ ccreates = <<>>

\* res := classifier.ClassifyMessage(msg)
ClassifyCall ==
    /\ cpc = "call"
    /\ curls' = ExtractURLsFromMessage(cmsg)
    /\ cres' = ClassifyUnit(cmsg)
    /\ cpc' = "classified"
    /\ UNCHANGED <<cmsg, ccreates, outsideClassify>>

\* the arguments of a client.CreateBookmark call
CreateArgs(url, title, notes) == [url |-> url, title |-> title, notes |-> notes]

\* the create call of the switch on res.Kind; the text of a file record is
\* fmt.Sprintf("Telegram media (%s)", ...) of the unit's date; a failed
\* create of a note that has URLs is followed by the fallback
SubmitCreate ==
    /\ cpc = "classified"
    /\ ccreates' = Append(ccreates,
            CASE cres.kind = "bookmark" -> CreateArgs(cres.url, <<>>, cres.notes)
              [] cres.kind = "note" -> CreateArgs(<<>>, <<>>, cres.text)
              [] OTHER -> CreateArgs(<<>>, <<>>, <<"Telegram media (", cmsg.date, ")">>))
    /\ \E err \in BOOLEAN :
         cpc' = IF NeedFallback(cres.kind, err, Len(cres.urls)) THEN "fallback" ELSE "created"
    /\ UNCHANGED <<cmsg, curls, cres, outsideClassify>>

\* the second create of a note: its first URL as a link, its text as notes
SubmitFallback ==
    /\ cpc = "fallback"
    /\ ccreates' = Append(ccreates, CreateArgs(cres.urls[1], <<>>, cres.text))
    /\ cpc' = "created"
    /\ UNCHANGED <<cmsg, curls, cres, outsideClassify>>

ClassifyNext ==
    \/ ClassifyCall
    \/ SubmitCreate
    \/ SubmitFallback

(***************************************************************************)
(* processSingleMessage and processMediaGroup: the representative unit of   *)
(* the batch, and ExtractAttachments on the units of the batch.             *)
(***************************************************************************)
\* the media fields of a unit, in the order in which ExtractAttachments
\* tests them
KindOrder ==
    <<"photo", "document", "video", "audio", "voice", "animation", "video_note", "sticker">>
MediaKinds == {KindOrder[i] : i \in DOMAIN KindOrder}

\* a unit with the media fields ks set, as the collector or HandleUpdate
\* hands it over: the words are its caption when it has media, its text
\* when it has none.  The FileID of a medium is empty or one of two
\* identifiers; the words are none, white space only, or a word; from is
\* Message.From, the sender
UnitsWith(ks) ==
    {[files |-> f, from |-> "u1",
      text |-> IF ks = {} THEN w ELSE <<>>,
      caption |-> IF ks = {} THEN <<>> ELSE w] : f \in [ks -> {"", "a", "b"}], w \in {<<>>, <<" ">>, <<"w">>}}


\* the closure add of ExtractAttachments as the mutant without the seen map
AddAttachmentKeepDuplicates(out, a) ==
    IF a.fileID = "" THEN out ELSE Append(out, a)

\* the closure add of ExtractAttachments: an attachment without identifier
\* and one whose identifier was seen are dropped
AddAttachment(out, a) ==
    IF a.fileID = "" THEN out
    ELSE IF \E i \in 1..Len(out) : out[i].fileID = a.fileID THEN out
    ELSE Append(out, a)

\* ExtractAttachments: the tests of the media fields of unit mi, from the
\* k-th on
RECURSIVE ExtractUnit(_, _, _, _)
ExtractUnit(msgs, mi, k, out) ==
    IF k > Len(KindOrder) THEN out
    ELSE ExtractUnit(msgs, mi, k + 1,
            IF KindOrder[k] \in DOMAIN msgs[mi].files
              THEN AddAttachment(out, [fileID |-> msgs[mi].files[KindOrder[k]],
                                       kind |-> KindOrder[k], unit |-> mi])
              ELSE out)

\* ExtractAttachments: the loop over the units, from unit mi on
RECURSIVE ExtractFrom(_, _, _)
ExtractFrom(msgs, mi, out) ==
    IF mi > Len(msgs) THEN out
    ELSE ExtractFrom(msgs, mi + 1, ExtractUnit(msgs, mi, 1, out))

ExtractAttachments(msgs) == ExtractFrom(msgs, 1, <<>>)

\* processMediaGroup's choice as the mutant that always takes the first unit
PickFirst(msgs) == 1

\* processMediaGroup: pick is msgs[0], replaced by the first unit whose
\* caption or text is not blank
Pick(msgs) ==
    LET worded == {i \in 1..Len(msgs) :
                     TrimSpace(msgs[i].caption) # <<>> \/ TrimSpace(msgs[i].text) # <<>>}
    IN IF worded = {} THEN 1 ELSE CHOOSE i \in worded : \A j \in worded : i <= j

\* no batch is handed over
GroupIdle ==
    /\ gbatch = [src |-> "none", msgs |-> <<>>]
    /\ gpc = "idle"
    /\ gpick = 0
    /\ gatts = <<>>

\* a batch is about to be processed: one message, of which at most two
\* media fields are set (an animation comes with a document), or the units
\* of a flushed media group, of each of which one media field is set.  The
\* units of a group are those that carried one MediaGroupID, the only key
\* of the collector's map: the first is from user u1, the others from u1
\* too or from another user u2
GroupInit ==
    /\ \/ \E ks \in {k \in SUBSET MediaKinds : Cardinality(k) <= 2} :
            \E u \in UnitsWith(ks) : gbatch = [src |-> "single", msgs |-> <<u>>]
       \/ \E n \in 1..MaxUnits :
            \E m \in [1..n -> UNION {UnitsWith({k}) : k \in MediaKinds}],
               from \in {"u1", "u2"} :
                gbatch = [src |-> "group",
                          msgs |-> [i \in 1..n |-> IF i = 1 THEN m[i] ELSE [m[i] EXCEPT !.from = from]]]
    /\ gpc = "start"
    /\ gpick = 0
    /\ gatts = <<>>

\* processMessageBatch(ctx, msg, batch) up to ExtractAttachments(batch):
\* the unit rep is the one that is classified and answered
BatchOf(rep, batch) ==
    /\ gpick' = rep
    /\ gatts' = ExtractAttachments(batch)
    /\ gpc' = "extracted"
    /\ UNCHANGED <<gbatch, outsideGroup>>

\* processSingleMessage: the message is its own batch
ProcessSingleMessage ==
    /\ gpc = "start"
    /\ gbatch.src = "single"
    /\ BatchOf(1, gbatch.msgs)

\* processMediaGroup: the picked unit with all the units of the group
ProcessMediaGroup ==
    /\ gpc = "start"
    /\ gbatch.src = "group"
    /\ BatchOf(Pick(gbatch.msgs), gbatch.msgs)

GroupNext ==
    \/ ProcessSingleMessage
    \/ ProcessMediaGroup

(***************************************************************************)
(* The helpers userFacingKarakeepError, Downloader.DownloadFileByID and    *)
(* hasExtractedContent: one call of one of them.                           *)
(***************************************************************************)
\* userFacingKarakeepError as the mutant that never cuts the message
userFacingKarakeepErrorNoCap(status, err) ==
    LET digits == IF status < 10 THEN 1 ELSE IF status < 100 THEN 2 ELSE 3
        hint == CASE status = 404 -> [class |-> "wrong_server", chars |-> 91, bytes |-> 133]
                  [] status \in {401, 403} -> [class |-> "check_key", chars |-> 38, bytes |-> 56]
                  [] status = 400 -> [class |-> "payload", chars |-> 152, bytes |-> 247]
                  [] OTHER -> [class |-> "generic", chars |-> 0, bytes |-> 0]
        excerpt == status \notin {404, 401, 403} /\ ~err.nil
        sep == IF excerpt THEN 1 ELSE 0
        n == IF excerpt THEN err.n ELSE 0
    IN [class |-> hint.class, excerpt |-> excerpt, cut |-> FALSE,
        chars |-> 21 + digits + hint.chars + sep + n,
        bytes |-> 29 + digits + hint.bytes + sep + n * err.w]

\* userFacingKarakeepError(status, err), the message by its hint, its length
\* in characters and its length in bytes.  err is nil or an error whose
\* trimmed text has n characters of w bytes each.  The literals are counted
\* as Go holds them (UTF-8): the prefix without its number has 21 characters
\* in 29 bytes.  msg[:800] cuts at a byte; the cut falls in the error text
\* (prefix and hints are shorter), where it may split a character, whose
\* bytes left behind are counted as one character each
userFacingKarakeepError(status, err) ==
    LET digits == IF status < 10 THEN 1 ELSE IF status < 100 THEN 2 ELSE 3
        hint == CASE status = 404 -> [class |-> "wrong_server", chars |-> 91, bytes |-> 133]
                  [] status \in {401, 403} -> [class |-> "check_key", chars |-> 38, bytes |-> 56]
                  [] status = 400 -> [class |-> "payload", chars |-> 152, bytes |-> 247]
                  [] OTHER -> [class |-> "generic", chars |-> 0, bytes |-> 0]
        excerpt == status \notin {404, 401, 403} /\ ~err.nil
        sep == IF excerpt THEN 1 ELSE 0
        n == IF excerpt THEN err.n ELSE 0
        fixedChars == 21 + digits + hint.chars + sep
        fixedBytes == 29 + digits + hint.bytes + sep
        kept == 800 - fixedBytes
    IN IF fixedBytes + n * err.w > 800
         THEN [class |-> hint.class, excerpt |-> excerpt, cut |-> TRUE,
               chars |-> fixedChars + (kept \div err.w) + (kept % err.w) + 1,
               bytes |-> 800 + 3]
         ELSE [class |-> hint.class, excerpt |-> excerpt, cut |-> FALSE,
               chars |-> fixedChars + n,
               bytes |-> fixedBytes + n * err.w]

\* DownloadFileByID as the mutant that reads at most maxBytes bytes
DownloadFileByIDExactLimit(delivered, maxBytes, fail) ==
    LET read == IF maxBytes > 0 /\ delivered > maxBytes THEN maxBytes ELSE delivered
    IN IF fail # "none" THEN [err |-> fail, data |-> 0 - 1]
       ELSE [err |-> "none", data |-> read]

\* DownloadFileByID(ctx, fileID, maxBytes) when the source delivers
\* `delivered` bytes; fail names the step that fails ("none" when none does).
\* io.LimitReader(r, n) reads nothing when n <= 0.  data is the number of
\* bytes returned, -1 for nil
DownloadFileByID(delivered, maxBytes, fail) ==
    LET limit == WrapInt(maxBytes + 1)
        read == IF maxBytes > 0
                  THEN IF limit <= 0 THEN 0 ELSE IF delivered < limit THEN delivered ELSE limit
                  ELSE delivered
    IN IF fail # "none" THEN [err |-> fail, data |-> 0 - 1]
       ELSE IF maxBytes > 0 /\ read > maxBytes THEN [err |-> "too_large", data |-> 0 - 1]
       ELSE [err |-> "none", data |-> read]

\* findNonTrivialContent as the mutant that skips no key
RECURSIVE findNonTrivialContentNoExclusion(_, _)
findNonTrivialContentNoExclusion(v, depth) ==
    IF depth > 6 \/ v.t = "nil" THEN FALSE
    ELSE CASE v.t = "map" ->
                \E k \in DOMAIN v.f :
                    LET kl == IF k = "Summary" THEN "summary" ELSE k
                    IN \/ /\ kl \in {"content", "html", "text", "textcontent", "readablecontent",
                                     "excerpt", "description", "markdown", "article"}
                          /\ v.f[k].t = "string"
                          /\ v.f[k].len >= 200
                       \/ findNonTrivialContentNoExclusion(v.f[k], depth + 1)
           [] v.t = "array" -> \E i \in DOMAIN v.s : findNonTrivialContentNoExclusion(v.s[i], depth + 1)
           [] v.t = "string" -> v.len >= 400
           [] OTHER -> FALSE

\* findNonTrivialContent(v, depth, sig), its boolean.  A decoded value is a
\* map, an array, a string (by the length of its trimmed text) or nil
RECURSIVE findNonTrivialContent(_, _)
findNonTrivialContent(v, depth) ==
    IF depth > 6 \/ v.t = "nil" THEN FALSE
    ELSE CASE v.t = "map" ->
                \E k \in DOMAIN v.f :
                    LET kl == IF k = "Summary" THEN "summary" ELSE k
                    IN /\ kl \notin {"notes", "note", "summary"}
                       /\ \/ /\ kl \in {"content", "html", "text", "textcontent", "readablecontent",
                                        "excerpt", "description", "markdown", "article"}
                             /\ v.f[k].t = "string"
                             /\ v.f[k].len >= 200
                          \/ findNonTrivialContent(v.f[k], depth + 1)
           [] v.t = "array" -> \E i \in DOMAIN v.s : findNonTrivialContent(v.s[i], depth + 1)
           [] v.t = "string" -> v.len >= 400
           [] OTHER -> FALSE

\* hasExtractedContent(raw), its boolean.  raw.text tells whether the raw
\* text is empty, is no JSON, or is JSON; raw.marker whether it contains
\* "crawlStatus":"success" or "taggingStatus":"success"; raw.v is the value
\* it decodes to.  json.Unmarshal into a map fails on an array or a string
hasExtractedContent(raw) ==
    IF raw.text = "empty" THEN FALSE
    ELSE IF raw.marker THEN TRUE
    ELSE IF raw.text = "invalid" \/ raw.v.t \notin {"map", "nil"} THEN FALSE
    ELSE findNonTrivialContent(raw.v, 0)

\* the decoded value in which leaf is enclosed by d containers: it is the
\* element k of the innermost one ("[]" for the element of an array, else the
\* key in a map), and each container but the outermost is the element wrap of
\* the one around it.  Every map has a short string "id" as well
RECURSIVE Nested(_, _, _, _)
Nested(d, wrap, k, leaf) ==
    IF d = 0 THEN leaf
    ELSE LET key == IF d = 1 THEN k ELSE wrap
             inner == Nested(d - 1, wrap, k, leaf)
         IN IF key = "[]"
              THEN [t |-> "array", s |-> <<inner>>]
              ELSE [t |-> "map", f |-> (key :> inner) @@ ("id" :> [t |-> "string", len |-> 8])]

\* no helper is called
HelperIdle ==
    /\ hfn = [fn |-> "none"]
    /\ hret = <<>>

\* one of the helpers is about to be called
HelperInit ==
    /\ hret = <<>>
    /\ \/ \E status \in {0, 400, 401, 403, 404, 500}, n \in 0..MaxErrLen, w \in 1..3, nil \in BOOLEAN :
            /\ nil => (n = 0 /\ w = 1)
            /\ hfn = [fn |-> "userFacingKarakeepError", status |-> status,
                      err |-> [nil |-> nil, n |-> n, w |-> w]]
       \/ \E delivered \in 0..(2 ^ (IntBits - 1) - 1), maxBytes \in GoInts,
             fail \in {"none", "getFile", "status", "read"} :
            hfn = [fn |-> "DownloadFileByID", delivered |-> delivered, maxBytes |-> maxBytes, fail |-> fail]
       \/ \E text \in {"empty", "invalid", "json"}, marker \in BOOLEAN, d \in 1..MaxNest,
             wrap \in {"data", "note", "[]"}, k \in {"content", "title", "Summary", "[]"},
             len \in {0 - 1, 0, 199, 200, 399, 400} :
            /\ text # "json" => (d = 1 /\ wrap = "data" /\ k = "title" /\ len = 0)
            /\ hfn = [fn |-> "hasExtractedContent", d |-> d, wrap |-> wrap, k |-> k, len |-> len,
                      raw |-> [text |-> text, marker |-> marker,
                               v |-> Nested(d, wrap, k, IF len < 0 THEN [t |-> "nil"]
                                                        ELSE [t |-> "string", len |-> len])]]

\* the call of userFacingKarakeepError returns
CallUserFacingKarakeepError ==
    /\ hfn.fn = "userFacingKarakeepError"
    /\ hret = <<>>
    /\ hret' = <<userFacingKarakeepError(hfn.status, hfn.err)>>
    /\ UNCHANGED <<hfn, outsideHelpers>>

\* the call of DownloadFileByID returns
CallDownloadFileByID ==
    /\ hfn.fn = "DownloadFileByID"
    /\ hret = <<>>
    /\ hret' = <<DownloadFileByID(hfn.delivered, hfn.maxBytes, hfn.fail)>>
    /\ UNCHANGED <<hfn, outsideHelpers>>

\* the call of hasExtractedContent returns
CallHasExtractedContent ==
    /\ hfn.fn = "hasExtractedContent"
    /\ hret = <<>>
    /\ hret' = <<hasExtractedContent(hfn.raw)>>
    /\ UNCHANGED <<hfn, outsideHelpers>>

HelperNext ==
    \/ CallUserFacingKarakeepError
    \/ CallDownloadFileByID
    \/ CallHasExtractedContent

BatchNext ==
    \/ Precheck
    \/ SendAck
    \/ Create
    \/ CreateFallback
    \/ ReportCreateError
    \/ Download
    \/ Upload
    \/ Attach
    \/ Saved
    \/ ExtractGet
    \/ ExtractWait
    \/ Summarize
    \/ SummaryGet
    \/ SummaryWait

\* one batch is processed; the collector stays as constructed
InitBatch == CollectorInit /\ BatchInit /\ WaiterIdle /\ LaunchIdle /\ SliceIdle /\ ClassifyIdle /\ GroupIdle /\ HelperIdle

SpecBatch == InitBatch /\ [][BatchNext]_vars

\* the identifiers an arriving unit can carry: one that has been seen, or a
\* new one, which is the first of GroupOrder not seen so far
KnownGroups ==
    {GroupOrder[i] : i \in {j \in DOMAIN GroupOrder :
                               \A k \in 1..(j - 1) : collected[GroupOrder[k]] # <<>>}}

CollectorNext ==
    \/ \E g \in KnownGroups : Collect(g)
    \/ \E g \in Groups : TimerFire(g)
    \/ \E f \in FlushIds : FlushLock(f)
    \/ \E f \in FlushIds : FlushUnlock(f)
    \/ \E f \in FlushIds : FlushCall(f)
    \/ \E f \in FlushIds, g \in KnownGroups : CallbackCollect(f, g)
    \/ \E f \in FlushIds : FlushReturn(f)
    \/ Tick

\* the collector runs; no batch is being processed
InitCollector == CollectorInit /\ BatchIdle /\ WaiterIdle /\ LaunchIdle /\ SliceIdle /\ ClassifyIdle /\ GroupIdle /\ HelperIdle

SpecCollector == InitCollector /\ [][CollectorNext]_vars

\* a step of the runtime: a timer expiry, a step of a flush goroutine, the
\* passing of time; arrivals are not among them
CollectorProgress ==
    \/ \E g \in Groups : TimerFire(g)
    \/ \E f \in FlushIds : FlushLock(f) \/ FlushUnlock(f) \/ FlushCall(f) \/ FlushReturn(f)
    \/ Tick

\* the runtime does not halt while a timer can expire, a goroutine can run
\* or time can pass; nothing obliges units to arrive or callbacks to re-enter
CollectorFairness == WF_vars(CollectorProgress)

SpecCollectorFair == InitCollector /\ [][CollectorNext]_vars /\ CollectorFairness

\* one waiter runs; no batch is processed and the collector stays as constructed
InitWaiter == CollectorInit /\ BatchIdle /\ WaiterInit /\ LaunchIdle /\ SliceIdle /\ ClassifyIdle /\ GroupIdle /\ HelperIdle

SpecWaiter == InitWaiter /\ [][WaiterNext]_vars

\* updates arrive and are handled; the batches are seen from outside
InitLaunch == CollectorInit /\ BatchIdle /\ WaiterIdle /\ LaunchIdle /\ SliceIdle /\ ClassifyIdle /\ GroupIdle /\ HelperIdle

SpecLaunch == InitLaunch /\ [][LaunchNext]_vars

\* one call of SliceByUTF16
InitSlice == CollectorInit /\ BatchIdle /\ WaiterIdle /\ LaunchIdle /\ SliceInit /\ ClassifyIdle /\ GroupIdle /\ HelperIdle

SpecSlice == InitSlice /\ [][SliceCall]_vars

\* one unit is classified and submitted
InitClassify ==
    CollectorInit /\ BatchIdle /\ WaiterIdle /\ LaunchIdle /\ SliceIdle /\ ClassifyInit /\ GroupIdle /\ HelperIdle

SpecClassify == InitClassify /\ [][ClassifyNext]_vars

\* one batch is handed to processMessageBatch
InitGroup ==
    CollectorInit /\ BatchIdle /\ WaiterIdle /\ LaunchIdle /\ SliceIdle /\ ClassifyIdle /\ GroupInit /\ HelperIdle

SpecGroup == InitGroup /\ [][GroupNext]_vars

\* one helper is called
InitHelpers ==
    CollectorInit /\ BatchIdle /\ WaiterIdle /\ LaunchIdle /\ SliceIdle /\ ClassifyIdle /\ GroupIdle /\ HelperInit

SpecHelpers == InitHelpers /\ [][HelperNext]_vars

(***************************************************************************)
(* Claims about the MediaGroupCollector.                                   *)
(***************************************************************************)
\* the OnFlush invocations made for group identifier g
FlushesOf(g) == {i \in DOMAIN flushed : flushed[i].gid = g}

\* C1 (as stated): OnFlush is invoked at most once per group identifier,
\* under every sequence of Collect calls and timer expiries.
C1_OncePerGroupId ==
    \A g \in Groups : Cardinality(FlushesOf(g)) <= 1

\* C1 (amended): OnFlush is invoked at most once per pending group, that is
\* per entry of the collector's map: no two invocations are for the same
\* entry (same identifier and same generation), and a timer goroutine that
\* finds no entry invokes nothing.
C1_OncePerPendingGroup ==
    /\ \A i, j \in DOMAIN flushed :
         (flushed[i].gid = flushed[j].gid /\ flushed[i].gen = flushed[j].gen) => i = j
    /\ \A i \in DOMAIN flushed : fl[flushed[i].by].ok
    /\ \A f \in FlushIds :
         Cardinality({i \in DOMAIN flushed : flushed[i].by = f}) <= 1

\* two timer goroutines of one group identifier have finished: one flushed
\* the entry, the other found nothing to flush
C1_Witness ==
    \E f1, f2 \in FlushIds :
        /\ f1 # f2
        /\ fl[f1].gid = fl[f2].gid
        /\ fl[f1].pc = "done" /\ fl[f1].ok
        /\ fl[f2].pc = "done" /\ ~fl[f2].ok
        /\ \E i \in DOMAIN flushed : flushed[i].by = f1

\* C2: OnFlush for a group identifier is invoked only when at least Delay
\* has elapsed since the most recent Collect for that identifier.
C2_FlushAfterFullDelay ==
    \A i \in DOMAIN flushed : flushed[i].since >= Delay

\* every unit of group identifier g arrived less than Delay after the one before
ShortGaps(g) == maxGap[g] < Delay

\* C3: when all units of a group identifier arrive with gaps shorter than
\* Delay, there is at most one flush, it carries all the units in arrival
\* order, and it happens no earlier than Delay after the last unit.
C3_BurstFlushedOnce ==
    \A g \in Groups :
        ShortGaps(g) =>
            /\ Cardinality(FlushesOf(g)) <= 1
            /\ \A i \in FlushesOf(g) :
                 /\ flushed[i].batch = collected[g]
                 /\ flushed[i].since >= Delay

\* three units of one group, each arriving less than Delay after the one
\* before and one of them later than the one before, have been flushed
C3_Witness ==
    \E g \in Groups :
        /\ ShortGaps(g)
        /\ Len(collected[g]) = 3
        /\ maxGap[g] > 0
        /\ FlushesOf(g) # {}

\* the entry of generation k of group identifier g is pending in the map
Pending(g, k) == g \in DOMAIN groups /\ groups[g].gen = k
\* OnFlush was invoked for the entry of generation k of group identifier g
Flushed(g, k) == \E i \in DOMAIN flushed : flushed[i].gid = g /\ flushed[i].gen = k

\* every entry ever created has left the map and was handed to OnFlush
AllFlushed ==
    \A g \in Groups :
        /\ g \notin DOMAIN groups
        /\ \A k \in 1..gens[g] : Flushed(g, k)

\* C4: every group that has entered the accumulating state is eventually
\* flushed: whatever is pending now, a moment follows at which every entry
\* created so far has left the map and was handed to OnFlush.
C4_PendingEventuallyFlushed == []<>AllFlushed

\* a burst of at least two units has been flushed and nothing is pending
C4_Witness ==
    /\ DOMAIN groups = {}
    /\ \E i \in DOMAIN flushed : Len(flushed[i].batch) >= 2

\* C5: the collector's mutex is never held by flush while OnFlush runs, so
\* a Collect made by the callback, or by another goroutine during the
\* callback, never waits for the goroutine that runs the callback.
C5_CallbackOutsideLock ==
    \A f \in FlushIds : fl[f].pc \in {"call", "incall"} => mu # f

\* a running callback has re-entered the collector with a Collect
C5_Witness ==
    \E f \in FlushIds : fl[f].pc = "incall" /\ fl[f].re

(***************************************************************************)
(* Claims about App.processMessageBatch.                                   *)
(***************************************************************************)
\* the events of the batch that belong to the set S, in order
Only(S) == SelectSeq(events, LAMBDA e : e \in S)
\* the edits of the acknowledgment
Edits == {"edit_config", "edit_error", "edit_size", "edit_download", "edit_upload",
          "edit_noasset", "edit_attach", "edit_saved", "edit_plain", "edit_timeout",
          "edit_final", "edit_not_ready"}

\* C6: no remote bookmarking call is made unless the acknowledgment was sent
\* successfully before it, and a failed acknowledgment ends the batch without
\* any remote call.
C6_NoRemoteCallWithoutAck ==
    /\ \A i \in DOMAIN events :
         events[i] \in RemoteOps => \E j \in 1..(i - 1) : events[j] = "ack"
    /\ Only({"ack_failed"}) # <<>> => (pc = "done" /\ events = <<"ack_failed">>)

\* a configured user's batch ended at the failed acknowledgment
C6_Witness ==
    /\ pc = "done"
    /\ inp.server /\ inp.cred = "ok"
    /\ events = <<"ack_failed">>

\* C7: a user without endpoint, without stored credential or with a stored
\* credential that cannot be decrypted gets exactly one instructive reply,
\* and no remote call is made.
C7_UnconfiguredGetsOneReply ==
    (pc = "done" /\ ~inp.userErr /\ (~inp.server \/ inp.cred \in {"none", "corrupt"}))
        => events = <<"reply">>

\* C8: a note is created text-only first and a second create, with the first
\* URL, is made exactly when the first failed and the URL list is not empty;
\* a bookmark or a file is created exactly once; never more than two creates.
C8_NoteFallbackOnly ==
    LET creates == Only(CreateOps) IN
    /\ Len(creates) <= 2
    /\ (firstCreate # "none" /\ pc # "create_fallback") =>
         CASE res.kind = "bookmark" -> creates = <<"create_link">>
           [] res.kind = "file" -> creates = <<"create_text">>
           [] OTHER ->
                IF firstCreate = "err" /\ res.nURLs > 0
                  THEN creates = <<"create_text", "create_link">>
                  ELSE creates = <<"create_text">>

\* a note with URLs whose text-only create failed went through the fallback
C8_Witness ==
    /\ pc = "done"
    /\ res.kind = "note" /\ res.nURLs > 0 /\ firstCreate = "err"
    /\ Only(CreateOps) = <<"create_text", "create_link">>

\* C9 (as stated): every create, upload, attach, summarize and get step
\* results in at most one HTTP request, whatever the service answers.
C9_OneRequestPerCall ==
    \A op \in RemoteOps : httpMax[op] <= 1

\* C9 (amended): a request is sent again only after the service answered it
\* with 404, and then once; besides that only a link create with notes makes
\* a further request (the PATCH of the notes). So a step makes one request,
\* two after a 404, and a link create at most four.
C9_ResendOnlyAfter404 ==
    /\ resent \subseteq {"404"}
    /\ \A op \in RemoteOps \ {"create_link"} :
         httpMax[op] <= (IF "404" \in resent THEN 2 ELSE 1)
    /\ httpMax["create_link"] <= (IF "404" \in resent THEN 4 ELSE 2)
    /\ (httpMax["create_link"] > 1 /\ resent = {}) =>
         \/ res.kind = "bookmark" /\ res.hasNotes
         \/ res.kind = "note" /\ res.hasText

\* a read of the record was answered 404 and sent again
C9_Witness ==
    /\ httpMax["get"] = 2
    /\ apiPrefix = AltPrefix(DefaultPrefix)

\* what must not follow a failed submission
AfterSubmit == {"download", "upload", "attach", "summarize", "get", "set_last_success",
                "edit_saved", "edit_plain", "edit_final", "edit_timeout", "edit_not_ready"}

\* C10: when the create call (after the possible fallback) fails, the
\* acknowledgment is edited once, with the error, and the batch stops: no
\* download, upload, attach, summarize or get and no success edit follows.
C10_SubmitFailureStops ==
    submitErr =>
        /\ pc \in {"create_failed", "done"}
        /\ Only(AfterSubmit) = <<>>
        /\ pc = "done" => (Only(Edits) = <<"edit_error">> /\ events[Len(events)] = "edit_error")

\* a batch with attachments ended at the error edit of its failed create
C10_Witness ==
    /\ submitErr
    /\ pc = "done"
    /\ Len(inp.atts) > 0
    /\ events[Len(events)] = "edit_error"

\* number of occurrences of event e
Count(e) == Len(Only({e}))
\* attachments attached to the record so far
Attached == Count("attach") - Count("edit_attach")
\* the size ceiling of the batch: the configured MaxUploadBytes, or the
\* default when that is zero or negative
Ceiling == IF inp.maxUpload > 0 THEN inp.maxUpload ELSE DefaultMaxUpload
\* attachment k declares a size above the ceiling
Oversized(k) == inp.atts[k] > Ceiling

C12_OversizedAbortsWithoutPartialSave ==
    Count("edit_size") > 0 => (Count("upload") = 0 /\ Count("attach") = 0)

\* the steps made for the attachments, in order
AttSteps == Only({"download", "upload", "attach"})
\* the step of an attachment at position i of AttSteps when every attachment
\* is downloaded, uploaded and attached before the next one is touched
StepAt(i) == <<"download", "upload", "attach">>[((i - 1) % 3) + 1]
\* the error edit that reports a failure of each step
FailureEdits == [download |-> {"edit_download"}, upload |-> {"edit_upload", "edit_noasset"},
                 attach |-> {"edit_attach"}]
AttErrors == {"edit_download", "edit_upload", "edit_noasset", "edit_attach"}

\* C13: attachments are processed one at a time in list order as download,
\* upload, attach; the first failing step ends the batch with its error edit:
\* the edit follows the failed step at once and nothing follows the edit, no
\* step for a later attachment, no polling, no call that undoes an attach.
C13_SequentialAttachmentsStopAtFailure ==
    /\ \A i \in DOMAIN AttSteps : AttSteps[i] = StepAt(i)
    /\ Len(AttSteps) <= 3 * Len(inp.atts)
    /\ Count("attach") <= attIdx /\ Attached <= attIdx
    /\ \A i \in DOMAIN events :
         events[i] \in AttErrors =>
             /\ i = Len(events) /\ pc = "done"
             /\ events[i - 1] \in {"download", "upload", "attach"}
             /\ events[i] \in FailureEdits[events[i - 1]]
             /\ Only({"get", "summarize", "set_last_success", "edit_saved"}) = <<>>

\* the second attachment failed at its upload after the first was attached
C13_Witness ==
    /\ pc = "done"
    /\ Attached = 1
    /\ attIdx = 2
    /\ events[Len(events)] = "edit_upload"

\* position of the first occurrence of event e, 0 when there is none
First(e) == IF Count(e) = 0 THEN 0 ELSE CHOOSE i \in DOMAIN events :
                                            events[i] = e /\ \A j \in 1..(i - 1) : events[j] # e

\* C14: in a batch of kind bookmark the extraction waiter runs and completes
\* successfully before the first summarize call (reads of the record come
\* between the provisional-success edit and that call, the last of them is
\* the ready one, no timeout notice was made); in a batch of kind note or
\* file the extraction waiter never runs and the summary waiter starts right
\* after the provisional-success edit.
C14_ExtractionBeforeSummaryForBookmark ==
    /\ (res.kind = "bookmark" /\ Count("summarize") > 0) =>
         /\ First("edit_saved") > 0
         /\ First("edit_saved") < First("get")
         /\ First("get") < First("summarize")
         /\ events[First("summarize") - 1] = "get"
         /\ Count("edit_timeout") = 0
    /\ res.kind \in {"note", "file"} =>
         /\ pc \notin {"extract_get", "extract_wait"}
         /\ Count("edit_timeout") = 0
         /\ Count("get") > 0 => First("summarize") = First("edit_saved") + 1
         /\ (pc \in {"summarize", "summary_get", "summary_wait"} \/ Count("summarize") > 0) =>
                First("edit_saved") > 0
         /\ (First("edit_saved") > 0 /\ Len(events) > First("edit_saved") /\ hasID) =>
                events[First("edit_saved") + 1] = "summarize"

\* a bookmark was summarized after its extraction waiter needed more than
\* one read of the record
C14_Witness ==
    /\ res.kind = "bookmark"
    /\ Count("summarize") > 0
    /\ First("summarize") - First("edit_saved") > 2

\* C15: when the extraction waiter returns non-readiness the acknowledgment
\* is edited with the timeout notice and the batch stops, with no summarize
\* call and no final-result edit; when the summary waiter returns
\* non-readiness the last edit of the acknowledgment is the not-ready notice.
C15_WaiterFailureNotices ==
    /\ Count("edit_timeout") > 0 =>
         /\ pc = "done"
         /\ events[Len(events)] = "edit_timeout"
         /\ Count("summarize") = 0
         /\ Count("edit_final") = 0
    /\ Count("edit_not_ready") > 0 =>
         /\ pc = "done"
         /\ events[Len(events)] = "edit_not_ready"
         /\ Count("edit_final") = 0
    /\ (pc = "done" /\ Count("get") > 0 /\ Count("edit_final") = 0) =>
         events[Len(events)] = (IF Count("summarize") = 0 THEN "edit_timeout" ELSE "edit_not_ready")

\* the extraction waiter of a bookmark gave up and the batch ended at the
\* timeout notice
C15_Witness ==
    /\ pc = "done"
    /\ res.kind = "bookmark"
    /\ Count("get") > PollTimeout
    /\ events[Len(events)] = "edit_timeout"

(***************************************************************************)
(* Claims about the polling waiters.                                       *)
(***************************************************************************)
\* C16: a waiter whose read never signals readiness and which is not
\* cancelled returns failure no earlier than the timeout and no later than
\* the timeout plus one interval after it started, also when the remote
\* reads take time or fail.
C16_FailureWithinOneIntervalOfTimeout ==
    (wpc = "returned" /\ ~wresult /\ wcancel = "none") =>
        (wclock >= WaitTimeout /\ wclock <= WaitTimeout + PollInterval)

\* C17: once the cancellation signal has fired the waiter starts no poll
\* iteration other than the one in progress, also when a tick is waiting at
\* the moment of the cancellation, and it returns false unless the read in
\* progress at the cancellation found the record ready.
C17_CancelStopsPolling ==
    wcancel # "none" =>
        /\ wlate = 0
        /\ (wpc = "returned" /\ wcancel = "select") => ~wresult

(***************************************************************************)
(* Claims about the goroutines of an update.                               *)
(***************************************************************************)
\* C18: a panic inside a batch's asynchronous execution is caught where that
\* execution was launched: the process goes on running and no other update's
\* handling is cut short.
C18_BatchPanicIsContained ==
    (\E u \in Updates : upd[u].st = "panicked") =>
        (procUp /\ \A v \in Updates : upd[v].st # "lost")

(***************************************************************************)
(* Claims about SliceByUTF16.                                              *)
(***************************************************************************)
\* code unit at which rune i of the text starts
RECURSIVE UnitsBefore(_, _)
UnitsBefore(runes, i) == IF i <= 1 THEN 0 ELSE UnitsBefore(runes, i - 1) + runes[i - 1].units
\* length of the text in code units
TotalUnits(runes) == UnitsBefore(runes, Len(runes) + 1)
\* positions that are codepoint boundaries of the text
Boundaries(runes) == {UnitsBefore(runes, i) : i \in 1..(Len(runes) + 1)}
\* the runes of the text that lie in code units [from, to)
RunesIn(runes, from, to) ==
    SelectSeq(runes, LAMBDA r : /\ UnitsBefore(runes, r.ch) >= from
                                /\ UnitsBefore(runes, r.ch) + r.units <= to)

\* C19: for an offset and a length that are in range and aligned on
\* codepoint boundaries, SliceByUTF16 returns exactly the codepoints that
\* occupy code units [off, off + length).
C19_SliceReturnsUnitsInRange ==
    (/\ spc = "done"
     /\ soff >= 0 /\ slen >= 0
     /\ soff + slen <= TotalUnits(stext)
     /\ soff \in Boundaries(stext)
     /\ (soff + slen) \in Boundaries(stext)) =>
        sout = RunesIn(stext, soff, soff + slen)

\* C20: SliceByUTF16 does not fail on out-of-range input: with a negative
\* offset or length taken as 0, an offset at or beyond the end of the text
\* gives the empty string, a length of 0 gives the empty string, and a
\* length that reaches past the end gives the text from the offset on.
C20_SliceClampsOutOfRange ==
    spc = "done" =>
        LET off == IF soff < 0 THEN 0 ELSE soff
            length == IF slen < 0 THEN 0 ELSE slen
        IN /\ off >= TotalUnits(stext) => sout = <<>>
           /\ length = 0 => sout = <<>>
           /\ off + length >= TotalUnits(stext) =>
                sout = RunesIn(stext, off, TotalUnits(stext))

(***************************************************************************)
(* Claims about the URL extraction and the classification.                 *)
(***************************************************************************)
\* the words of a unit and their entities: its text when it has one, else
\* its caption
WordsOf(m) == IF m.text # <<>> THEN m.text ELSE m.caption
EntitiesIn(m) == IF m.text # <<>> THEN m.entities ELSE m.captionEntities
\* the characters of s that occupy code units [from, to)
CharsIn(s, from, to) ==
    LET r == RunesIn(RunesOf(s), from, to) IN [i \in 1..Len(r) |-> s[r[i].ch]]
\* the URL an entity stands for: the target of a link entity, the characters
\* of its span for an auto-detected URL, without trailing punctuation
UrlOf(s, e) ==
    TrimSpace(StripTrailingPunct(TrimSpace(
        IF e.type = "text_link" THEN e.url
        ELSE CharsIn(s, e.offset, e.offset + e.length))))
\* the URLs of the first n entities, each once, in the order of their first
\* occurrence
RECURSIVE UrlsOf(_, _, _)
UrlsOf(s, es, n) ==
    IF n = 0 THEN <<>>
    ELSE LET before == UrlsOf(s, es, n - 1)
             u == UrlOf(s, es[n])
         IN IF u = <<>> \/ (\E i \in 1..Len(before) : before[i] = u)
              THEN before ELSE Append(before, u)
\* the URLs of a unit
UrlsIn(m) == UrlsOf(WordsOf(m), EntitiesIn(m), Len(EntitiesIn(m)))

\* C21: ClassifyMessage follows the precedence table: media without text
\* and without URL is file; any other unit with media is note with the text
\* and all the URLs; without media, no URL is note, one URL is bookmark with
\* that URL (no notes when the trimmed text is the URL, the trimmed text as
\* notes otherwise), two or more URLs is note with the text and all the URLs.
C21_ClassifiedPerPrecedenceTable ==
    cpc = "classified" =>
        LET text == TrimSpace(WordsOf(cmsg))
            urls == UrlsIn(cmsg)
        IN IF cmsg.hasMedia /\ text = <<>> /\ Len(urls) = 0
             THEN cres.kind = "file"
           ELSE IF cmsg.hasMedia \/ Len(urls) # 1
             THEN cres.kind = "note" /\ cres.text = text /\ cres.urls = urls
           ELSE /\ cres.kind = "bookmark"
                /\ cres.url = urls[1]
                /\ cres.notes = IF text = urls[1] THEN <<>> ELSE text

\* a unit without media whose text is one auto-detected URL followed by
\* other words: the URL, and the words after it
UrlThenWords(m) ==
    /\ ~m.hasMedia
    /\ Len(m.entities) = 1
    /\ m.entities[1].type = "url"
    /\ m.entities[1].offset = 0
    /\ UrlOf(m.text, m.entities[1]) = CharsIn(m.text, 0, m.entities[1].length)
    /\ TrimSpace(CharsIn(m.text, m.entities[1].length, UnitsUpTo(m.text, Len(m.text)))) # <<>>
    /\ IsSpace(m.text[Len(CharsIn(m.text, 0, m.entities[1].length)) + 1])

\* C22: a unit without media whose text is one URL followed by other text
\* is classified bookmark, with that URL alone as URL and the other text
\* alone as notes.
C22_UrlWithExtraTextIsBookmarkWithNotes ==
    (cpc = "classified" /\ UrlThenWords(cmsg)) =>
        LET e == cmsg.entities[1] IN
        /\ cres.kind = "bookmark"
        /\ cres.url = CharsIn(cmsg.text, 0, e.length)
        /\ cres.notes = TrimSpace(CharsIn(cmsg.text, e.length, UnitsUpTo(cmsg.text, Len(cmsg.text))))

\* a unit without media whose whole text is one auto-detected URL
WholeTextIsUrl(m) ==
    /\ ~m.hasMedia
    /\ m.text # <<>>
    /\ \A i \in 1..Len(m.text) : ~IsSpace(m.text[i])
    /\ ~IsTrailingPunct(m.text[Len(m.text)])
    /\ Len(m.entities) = 1
    /\ m.entities[1].type = "url"
    /\ m.entities[1].offset = 0
    /\ m.entities[1].length = UnitsUpTo(m.text, Len(m.text))

\* C23: a unit without media whose whole text is a single URL is classified
\* bookmark with that URL and no notes, and the only create call of its
\* batch carries that URL with an empty title and empty notes.
C23_UrlOnlyIsBookmarkWithoutNotes ==
    (cpc # "call" /\ WholeTextIsUrl(cmsg)) =>
        /\ cres.kind = "bookmark" /\ cres.url = cmsg.text /\ cres.notes = <<>>
        /\ cpc # "fallback"
        /\ cpc = "created" => ccreates = <<CreateArgs(cmsg.text, <<>>, <<>>)>>

\* C23 witness: the create call of a unit whose whole text is a URL of more
\* than one character has been made
C23_Witness ==
    cpc = "created" /\ WholeTextIsUrl(cmsg) /\ Len(cmsg.text) > 1

\* C25: every URL that ExtractURLs returns is the URL of an entity, and the
\* URL of every entity is returned: for an auto-detected URL the characters
\* of exactly its span, without trailing punctuation, wherever the span
\* lies; for a link entity its target, whatever the text under it.
C25_UrlIsSpanOrLinkTarget ==
    cpc = "classified" =>
        LET s == WordsOf(cmsg)
            es == EntitiesIn(cmsg)
        IN /\ \A i \in 1..Len(curls) : \E k \in 1..Len(es) : curls[i] = UrlOf(s, es[k])
           /\ \A k \in 1..Len(es) :
                UrlOf(s, es[k]) # <<>> => \E i \in 1..Len(curls) : curls[i] = UrlOf(s, es[k])

\* what ExtractURLs returns for the first n entities of the unit
Extracted(m, n) == ExtractURLs(WordsOf(m), SubSeq(EntitiesIn(m), 1, n))
\* what ExtractURLs returns for the k-th entity alone
ExtractedOf(m, k) == ExtractURLs(WordsOf(m), <<EntitiesIn(m)[k]>>)

\* urls is without duplicate and without blank string, holds the URLs that
\* the n entities yield one by one (one[k] for the k-th), in the order in
\* which they are first yielded, and is built up (upTo[k] after k entities)
\* without change by an entity that yields a URL already held
DistinctInFirstOccurrenceOrder(urls, one, upTo, n) ==
    /\ urls = upTo[n]
    /\ \A i, j \in 1..Len(urls) : urls[i] = urls[j] => i = j
    /\ \A i \in 1..Len(urls) : TrimSpace(urls[i]) # <<>>
    /\ \A i \in 1..Len(urls) : \E k \in 1..n : one[k] = <<urls[i]>>
    /\ \A k \in 1..n : one[k] = <<>> \/ \E j \in 1..Len(urls) : one[k] = <<urls[j]>>
    /\ \A i, j \in 1..Len(urls) :
         i < j => \E k \in 1..n : one[k] = <<urls[i]>> /\ \A l \in 1..k : one[l] # <<urls[j]>>
    /\ \A k \in 1..n :
         (\E j \in 1..Len(upTo[k - 1]) : one[k] = <<upTo[k - 1][j]>>) => upTo[k] = upTo[k - 1]

\* C26: the list ExtractURLs returns has no duplicate and no empty or blank
\* string; its URLs are those the entities yield, in the order in which
\* the entities first yield them; and an entity that yields a URL already
\* in the list leaves the list as it is.
C26_UrlsDistinctNonBlankInFirstOccurrenceOrder ==
    cpc = "classified" =>
        DistinctInFirstOccurrenceOrder(curls,
            [k \in 1..Len(EntitiesIn(cmsg)) |-> ExtractedOf(cmsg, k)],
            [k \in 0..Len(EntitiesIn(cmsg)) |-> Extracted(cmsg, k)],
            Len(EntitiesIn(cmsg)))

\* C26 witness: the two entities of a unit have yielded the same URL, a
\* link target with trailing punctuation among them, and the list holds it
\* once
C26_Witness ==
    /\ cpc = "classified"
    /\ Len(EntitiesIn(cmsg)) = 2
    /\ \E k \in 1..2 : EntitiesIn(cmsg)[k].type = "text_link"
    /\ \E k \in 1..2 : EntitiesIn(cmsg)[k].type = "url"
    /\ ExtractedOf(cmsg, 1) # <<>>
    /\ ExtractedOf(cmsg, 1) = ExtractedOf(cmsg, 2)
    /\ Len(curls) = 1

(***************************************************************************)
(* Claims about the representative unit and the attachments of a batch.    *)
(***************************************************************************)
\* the media of the batch: unit and position in the order of the kind tests
MediaOf(msgs) ==
    {it \in (1..Len(msgs)) \X (1..Len(KindOrder)) : KindOrder[it[2]] \in DOMAIN msgs[it[1]].files}
\* the file identifier of a medium
IdOf(msgs, it) == msgs[it[1]].files[KindOrder[it[2]]]
\* a stands before b in batch order, then in the order of the kind tests
Before(a, b) == a[1] < b[1] \/ (a[1] = b[1] /\ a[2] < b[2])
\* the media that have an identifier which no medium before them has
FirstOccurrences(msgs) ==
    {it \in MediaOf(msgs) :
        /\ IdOf(msgs, it) # ""
        /\ \A o \in MediaOf(msgs) : Before(o, it) => IdOf(msgs, o) # IdOf(msgs, it)}
\* the medium an attachment was made of
MediumOf(a) == <<a.unit, CHOOSE k \in 1..Len(KindOrder) : KindOrder[k] = a.kind>>

\* C27: ExtractAttachments returns each file identifier at most once for
\* the whole batch, the first occurrence being kept; media with an empty
\* identifier are skipped; the output is in batch order and, within a
\* unit, in the order photo, document, video, audio, voice, animation,
\* video-note, sticker.
C27_AttachmentsDistinctInBatchOrder ==
    gpc = "extracted" =>
        /\ \A i, j \in 1..Len(gatts) : gatts[i].fileID = gatts[j].fileID => i = j
        /\ \A i \in 1..Len(gatts) : gatts[i].fileID # ""
        /\ {MediumOf(gatts[i]) : i \in 1..Len(gatts)} = FirstOccurrences(gbatch.msgs)
        /\ \A i \in 1..Len(gatts) : gatts[i].fileID = IdOf(gbatch.msgs, MediumOf(gatts[i]))
        /\ \A i, j \in 1..Len(gatts) : i < j => Before(MediumOf(gatts[i]), MediumOf(gatts[j]))

\* C27 witness: the two units of a media group carry the same file
\* identifier, and the attachment made of the first is the only one
C27_Witness ==
    /\ gpc = "extracted"
    /\ Len(gbatch.msgs) = 2
    /\ \E a \in MediaOf(gbatch.msgs), b \in MediaOf(gbatch.msgs) :
         a[1] = 1 /\ b[1] = 2 /\ IdOf(gbatch.msgs, a) = IdOf(gbatch.msgs, b)
    /\ Len(gatts) = 1
    /\ gatts[1].unit = 1

\* the units of the batch that have words: a caption or a text that is not
\* blank
Worded(msgs) ==
    {i \in 1..Len(msgs) : TrimSpace(msgs[i].caption) # <<>> \/ TrimSpace(msgs[i].text) # <<>>}

\* C28: of a flushed media group, the unit handed over as msg (classified,
\* and source of sender, chat and date) is the first unit in arrival order
\* that has a caption or text, the first unit when none has; the
\* attachments are taken from all the units.
C28_RepresentativeIsFirstWordedUnit ==
    (gpc = "extracted" /\ gbatch.src = "group") =>
        /\ gpick \in 1..Len(gbatch.msgs)
        /\ IF Worded(gbatch.msgs) = {} THEN gpick = 1
           ELSE gpick \in Worded(gbatch.msgs) /\ \A i \in Worded(gbatch.msgs) : gpick <= i
        /\ \A it \in MediaOf(gbatch.msgs) :
             IdOf(gbatch.msgs, it) # "" =>
                \E i \in 1..Len(gatts) : gatts[i].fileID = IdOf(gbatch.msgs, it)

\* C28 witness: the second unit of a media group is the first with a
\* caption and is handed over as msg, with the attachments of both units
C28_Witness ==
    /\ gpc = "extracted"
    /\ gbatch.src = "group"
    /\ Len(gbatch.msgs) = 2
    /\ Worded(gbatch.msgs) = {2}
    /\ gpick = 2
    /\ Len(gatts) = 2
    /\ gatts[1].unit = 1

(***************************************************************************)
(* Claims about the course of a batch: the photo without caption, and the  *)
(* messages the user sees.                                                  *)
(***************************************************************************)
\* the batch is a single photo without caption
PhotoOnly ==
    /\ inp.msg.hasMedia /\ ~inp.msg.hasText /\ inp.msg.nUrls = 0
    /\ Len(inp.atts) = 1
\* a remote call of the batch has failed
RemoteFailed == \E i \in DOMAIN events : events[i] \in {"edit_error"} \cup (AttErrors \ {"edit_noasset"})
\* the attachment has been downloaded, uploaded and attached, once and in
\* that order, before the provisional-success edit
OneAttachmentBeforeSaved ==
    /\ Count("download") = 1 /\ Count("upload") = 1 /\ Count("attach") = 1
    /\ Count("edit_saved") = 1
    /\ First("download") < First("upload")
    /\ First("upload") < First("attach")
    /\ First("attach") < First("edit_saved")
\* the batch of a photo is classified file and makes one create call, of a
\* text record
PhotoIsFileWithTextRecord ==
    /\ res.kind = "file"
    /\ Count("create_link") = 0
    /\ Count("create_text") <= 1
    /\ Count("edit_saved") = 1 => Count("create_text") = 1

LastEdits == Edits \ {"edit_saved"}

\* C29: a batch sends at most one new message to the chat, the instructive
\* reply or the acknowledgment, never both; every later change the user
\* sees is an edit of the acknowledgment, which therefore was sent before;
\* and an edit that fails does not end the batch: a batch in which an edit
\* failed still goes on to the edit after which it returns.
C29_OneMessageThenEdits ==
    /\ Count("reply") + Count("ack") + Count("ack_failed") <= 1
    /\ \A i \in DOMAIN events :
         events[i] \in Edits => \E j \in 1..(i - 1) : events[j] = "ack"
    /\ editFailed \subseteq {events[i] : i \in DOMAIN events} \cap Edits
    /\ (pc = "done" /\ Count("ack") = 1) => events[Len(events)] \in LastEdits
    /\ (pc # "done" /\ Count("edit_saved") = 1) => pc \in {"extract_get", "extract_wait", "summarize", "summary_get", "summary_wait"}

\* C29 witness: the provisional-success edit failed, and the batch has gone
\* on to the final edit
C29_Witness ==
    /\ pc = "done"
    /\ editFailed = {"edit_saved"}
    /\ events[Len(events)] = "edit_final"

(***************************************************************************)
(* Claims about the summary-readiness waiter.                              *)
(***************************************************************************)
\* the phrases of an empty-content placeholder, in lower case
PlaceholderPhrases == {"content is empty", "no information to summarize"}
\* the text is an empty-content placeholder: it contains one of the
\* phrases, in whatever case
IsPlaceholder(t) ==
    \E i \in DOMAIN t : t[i] \in PlaceholderPhrases \cup {"Content Is Empty"}
\* the last read yielded a summary that is non-empty and no placeholder
LastReadHasSummary ==
    /\ ~wgot.err
    /\ TrimSpace(SummaryText(wgot.got.summary)) # <<>>
    /\ ~IsPlaceholder(SummaryText(wgot.got.summary))
\* the calls of the waiter at odd places are summarize calls, those at even
\* places are reads
SummarizeBeforeEachRead ==
    \A i \in DOMAIN wcalls : wcalls[i] = (IF i % 2 = 1 THEN "summarize" ELSE "get")

\* C30: in the summary-readiness waiter every read of the record is
\* immediately preceded by one summarize call, so that whenever no call is
\* in progress as many summarize calls as reads have been made, also when
\* the summarize call failed; and the waiter returns success exactly when
\* its last read yields a summary that is non-empty and not an
\* empty-content placeholder, and it then returns the record of that read.
C30_SummarizeBeforeReadAndSuccessOnSummary ==
    wkind = "summary" =>
        /\ SummarizeBeforeEachRead
        /\ wpc = "summarize" => Len(wcalls) % 2 = 1
        /\ wpc \in {"get", "select", "returned"} => Len(wcalls) % 2 = 0
        /\ wpc = "returned" =>
             /\ wresult <=> LastReadHasSummary
             /\ wresult => wret = wgot.got
             /\ ~wresult => wret = NoBookmark
        /\ wpc = "select" => ~LastReadHasSummary

\* C30 witness: the summary waiter has returned success at its second
\* iteration or later, on a summary object read after a summarize call that
\* failed
C30_Witness ==
    /\ wkind = "summary"
    /\ wpc = "returned"
    /\ wresult
    /\ wsumErr
    /\ Len(wcalls) >= 4
    /\ wret.summary.form = "object"

(***************************************************************************)
(* Claims about the collector: stale timer fires, delivery of the units.   *)
(***************************************************************************)
\* C34: a timer fire for a group identifier whose entry is no longer in the
\* map is a no-op: its critical section leaves the map, with every group's
\* timer and units, as it is, and the goroutine goes on to its end without
\* invoking OnFlush.
C34_StaleFireIsNoOp ==
    [][\A f \in FlushIds :
          /\ (fl[f].pc = "lock" /\ fl'[f].pc = "unlock" /\ fl[f].gid \notin DOMAIN groups) =>
                (groups' = groups /\ flushed' = flushed /\ ~fl'[f].ok)
          /\ (fl[f].pc = "unlock" /\ ~fl[f].ok /\ fl'[f] # fl[f]) =>
                (fl'[f].pc = "done" /\ groups' = groups /\ flushed' = flushed)
          /\ (fl'[f].pc \in {"call", "incall"} => fl'[f].ok)]_vars

\* C34 witness: a timer goroutine has ended without having found its entry,
\* while another group is waiting in the map
C34_Witness ==
    \E f \in FlushIds :
        /\ fl[f].pc = "done" /\ ~fl[f].ok
        /\ \E g \in DOMAIN groups : g # fl[f].gid

\* the OnFlush invocations whose batch holds unit u
Deliveries(u) ==
    {i \in DOMAIN flushed : \E k \in DOMAIN flushed[i].batch : flushed[i].batch[k] = u}
\* the units Collect has accepted so far
Accepted == 1..(nextMsg - 1)
\* no unit was handed over twice, and every batch holds units of its own
\* group in the order of their arrival
DeliveredAtMostOnceInOrder ==
    /\ \A u \in Accepted : Cardinality(Deliveries(u)) <= 1
    /\ \A i \in DOMAIN flushed :
         LET b == flushed[i].batch
         IN  /\ \A k \in 1..(Len(b) - 1) : b[k] < b[k + 1]
             /\ \A k \in DOMAIN b : \E n \in DOMAIN collected[flushed[i].gid] :
                                        collected[flushed[i].gid][n] = b[k]
\* every accepted unit was handed over
EveryUnitDelivered == \A u \in Accepted : Cardinality(Deliveries(u)) = 1
\* the entries of the map and the flush goroutines that hold unit u on its
\* way to OnFlush
Holders(u) ==
    {<<"entry", g>> : g \in {h \in DOMAIN groups : \E k \in DOMAIN groups[h].msgs : groups[h].msgs[k] = u}}
    \cup {<<"flush", f>> : f \in {h \in FlushIds : \E k \in DOMAIN fl[h].batch : fl[h].batch[k] = u}}
\* nothing is on its way: the map is empty and no flush goroutine is between
\* its lookup and the callback
NothingPending == DOMAIN groups = {} /\ \A f \in FlushIds : fl[f].pc \notin {"unlock", "call"}

\* C35: every unit accepted by Collect is handed to OnFlush in exactly one
\* batch: never in two, never twice in one, within a batch in the order of
\* arrival, and never lost: a unit not yet handed over is held by exactly
\* one map entry or flush goroutine, so that with nothing pending every
\* accepted unit has been handed over; under every interleaving of Collect
\* calls, timer expiries and flush goroutines.
C35_EveryUnitInExactlyOneBatch ==
    /\ DeliveredAtMostOnceInOrder
    /\ \A u \in Accepted : Cardinality(Deliveries(u)) + Cardinality(Holders(u)) = 1
    /\ NothingPending => EveryUnitDelivered

\* C35 witness: every unit the collector accepts has been handed over, in
\* more than one batch, and a unit arrived while a timer goroutine of its
\* group was on its way
C35_Witness ==
    /\ nextMsg = MaxMsgs + 1
    /\ EveryUnitDelivered
    /\ Len(flushed) >= 2
    /\ \E i \in DOMAIN flushed : Len(flushed[i].batch) >= 2 /\ flushed[i].since < Delay

(***************************************************************************)
(* Claims about whose media a batch holds.                                 *)
(***************************************************************************)
\* C36: all units of a batch handed to processMessageBatch are from one
\* sender, the one of the unit handed over as msg, whose endpoint and
\* credential the batch is submitted with; also when messages of two users
\* carry the same group identifier.
C36_BatchOfOneSender ==
    gpc = "extracted" =>
        /\ \A i \in 1..Len(gbatch.msgs) : gbatch.msgs[i].from = gbatch.msgs[gpick].from
        /\ \A i \in 1..Len(gatts) : gbatch.msgs[gatts[i].unit].from = gbatch.msgs[gpick].from

(***************************************************************************)
(* Claims about the end of a batch, the stored last success and the        *)
(* termination.                                                            *)
(***************************************************************************)
\* the create call of the batch was made and, after the possible fallback,
\* returned without error
CreateSucceeded == Count("create_text") + Count("create_link") >= 1 /\ ~submitErr

\* C37: a batch with at least one attachment whose create call succeeded
\* ends either with every attachment uploaded and attached to the created
\* record, or with the acknowledgment showing an error; no success message
\* is shown while attachments were skipped.
C37_AllAttachedOrErrorShown ==
    (pc = "done" /\ Len(inp.atts) >= 1 /\ CreateSucceeded) =>
        \/ Attached = Len(inp.atts)
        \/ events[Len(events)] \in AttErrors \cup {"edit_size"}

\* C39: the user's last-success identifier is recorded only by a batch whose
\* create call succeeded and whose attachments were all attached, once, and
\* before the provisional-success edit; a batch that ended on a submission,
\* size, download, upload or attach failure leaves the stored value as it
\* was.
C39_LastSuccessOnlyAfterFullSuccess ==
    /\ lastSuccess # "old" => (CreateSucceeded /\ Attached = Len(inp.atts))
    /\ Count("set_last_success") <= 1
    /\ Count("set_last_success") = 0 => lastSuccess = "old"
    /\ Count("edit_saved") >= 1 =>
          (Count("set_last_success") = 1 /\ First("set_last_success") < First("edit_saved"))
    /\ (events # <<>> /\ events[Len(events)] \in AttErrors \cup {"edit_error", "edit_size"}) =>
          lastSuccess = "old"

\* most poll iterations of a waiter of the batch: one at the start, one per
\* interval until the timeout has passed
MostPolls == PollTimeout + 2
\* how far the batch has come: the place of its position in
\* processMessageBatch, counting the attachments done and the poll
\* iterations made
Progress ==
    LET loop == 5 + 3 * Len(inp.atts)
        polls == loop + 2 * MostPolls + 1
    IN  CASE pc = "start" -> 0
          [] pc = "ack" -> 1
          [] pc = "create" -> 2
          [] pc = "create_fallback" -> 3
          [] pc = "create_failed" -> 4
          [] pc = "download" -> 5 + 3 * (attIdx - 1)
          [] pc = "upload" -> 6 + 3 * (attIdx - 1)
          [] pc = "attach" -> 7 + 3 * (attIdx - 1)
          [] pc = "saved" -> loop
          [] pc = "extract_get" -> loop + 1 + 2 * elapsed
          [] pc = "extract_wait" -> loop + 2 + 2 * elapsed
          [] pc = "summarize" -> polls + 3 * elapsed
          [] pc = "summary_get" -> polls + 1 + 3 * elapsed
          [] pc = "summary_wait" -> polls + 2 + 3 * elapsed
          [] OTHER -> polls + 3 * MostPolls
\* the remote calls made so far are within what one batch can make
CallsBounded ==
    /\ Count("create_text") + Count("create_link") <= 2
    /\ Count("download") + Count("upload") + Count("attach") <= 3 * Len(inp.atts)
    /\ Count("summarize") <= MostPolls
    /\ Count("get") <= 2 * MostPolls

\* C40: every batch terminates when its calls return: a batch that has not
\* returned can take a step and every step brings it further in
\* processMessageBatch; when it has returned, its remote calls were within
\* two creates, three calls per attachment and the reads of two waiters
\* that end with their timeout, and, if its acknowledgment was sent, its
\* last user-visible action is an edit that shows an error, a timeout or
\* not-ready notice, the plain saved notice or the final result.
C40_BatchTerminates ==
    /\ [](/\ pc # "done" => ENABLED BatchNext
          /\ pc = "done" => CallsBounded
          /\ (pc = "done" /\ Count("ack") = 1) => events[Len(events)] \in Edits \ {"edit_saved"})
    /\ [][Progress' > Progress]_vars

\* C40 witness: a batch has returned after the fallback create, the reads of
\* the summary waiter up to its timeout, and the not-ready notice
C40_Witness ==
    /\ pc = "done"
    /\ Count("create_text") + Count("create_link") = 2
    /\ Count("summarize") = MostPolls
    /\ events[Len(events)] = "edit_not_ready"

(***************************************************************************)
(* Claims about the routing of an update.                                  *)
(***************************************************************************)
\* C38: HandleUpdate routes every update to one path: a command is handled
\* as a command (or refused) and neither starts a batch nor enters the
\* collector, also when its message has a group identifier; a message that
\* is no command and has a group identifier enters the collector only; any
\* other message that is no command starts one single-message batch; and a
\* setup command outside a private chat does not write the store.
C38_OnePathPerUpdate ==
    \A u \in Updates :
        upd[u].did # {} =>
            /\ upd[u].msg.command # "" => upd[u].did \cap {"collect", "batch"} = {}
            /\ (upd[u].msg.command # "" /\ ~upd[u].msg.private) => upd[u].did = {"refused"}
            /\ (upd[u].msg.command # "" /\ upd[u].msg.private) => "command" \in upd[u].did
            /\ (upd[u].msg.command = "" /\ upd[u].msg.grouped) => upd[u].did = {"collect"}
            /\ (upd[u].msg.command = "" /\ ~upd[u].msg.grouped) => upd[u].did = {"batch"}

\* C38 witness: a setup command from a group chat, a setup command with a
\* group identifier, and a unit of a media group have been handled
C38_Witness ==
    /\ \E u \in Updates : upd[u].msg.command = "key" /\ ~upd[u].msg.private /\ upd[u].did # {}
    /\ \E u \in Updates : upd[u].msg.command = "key" /\ upd[u].msg.private /\ upd[u].msg.grouped
                            /\ upd[u].did # {}
    /\ \E u \in Updates : upd[u].msg.command = "" /\ upd[u].msg.grouped /\ upd[u].did # {}

(***************************************************************************)
(* Claims about the helpers.                                               *)
(***************************************************************************)
\* the call of fn has returned
Returned(fn) == hfn.fn = fn /\ hret # <<>>

\* the string of the record is in no map under an excluded key, at any level
NotExcluded == hfn.k # "Summary" /\ (hfn.d > 1 => hfn.wrap # "note")

\* the raw text is JSON whose outermost container is a map
IsObject == hfn.raw.text = "json" /\ hfn.raw.v.t = "map"

\* C31 (as stated): for a record that is a JSON object, readiness is true
\* exactly when the raw text has a success marker or a string enclosed by at
\* most 6 containers, under no excluded key, is content-keyed with trimmed
\* length >= 200 or has trimmed length >= 400
C31_ReadyExactlyWithinSixLevels ==
    (Returned("hasExtractedContent") /\ IsObject) =>
        (hret[1] <=> \/ hfn.raw.marker
                     \/ /\ NotExcluded
                        /\ hfn.d <= 6
                        /\ \/ hfn.k = "content" /\ hfn.len >= 200
                           \/ hfn.len >= 400)

\* C31 (amended): readiness is true exactly when the raw text is not empty
\* and either has a success marker, or is a JSON object in which a string
\* under no excluded key is content-keyed with trimmed length >= 200 in a map
\* enclosed by at most 6 containers (the string by at most 7), or has trimmed
\* length >= 400 and is enclosed by at most 6 containers; without a marker a
\* string under notes, note or summary never makes the record ready
C31_ReadyExactlyWithinScanDepth ==
    Returned("hasExtractedContent") =>
        /\ hret[1] <=> /\ hfn.raw.text # "empty"
                       /\ \/ hfn.raw.marker
                          \/ /\ IsObject
                             /\ NotExcluded
                             /\ \/ hfn.k = "content" /\ hfn.len >= 200 /\ hfn.d <= 7
                                \/ hfn.len >= 400 /\ hfn.d <= 6
        /\ (~hfn.raw.marker /\ ~NotExcluded) => ~hret[1]

\* C31 witness: a content-keyed string of trimmed length 200 enclosed by 7
\* containers has made a record without marker ready
C31_Witness ==
    /\ Returned("hasExtractedContent")
    /\ ~hfn.raw.marker /\ hfn.d = 7 /\ hfn.k = "content" /\ hfn.len = 200
    /\ hret[1]

\* C32: the message of a failed submission has the hint of its status class
\* (404 wrong server, 401 and 403 check the key, 400 payload rejected, any
\* other status generic), carries an excerpt of the error in the generic and
\* the payload case, and is at most 800 characters long
C32_HintByStatusAndAtMost800 ==
    Returned("userFacingKarakeepError") =>
        /\ hret[1].class = CASE hfn.status = 404 -> "wrong_server"
                             [] hfn.status \in {401, 403} -> "check_key"
                             [] hfn.status = 400 -> "payload"
                             [] OTHER -> "generic"
        /\ (hret[1].class = "generic" /\ ~hfn.err.nil) => hret[1].excerpt
        /\ hret[1].chars <= 800

\* C32 witness: a generic message was cut, its error text being of one-byte
\* characters
C32_Witness ==
    /\ Returned("userFacingKarakeepError")
    /\ hret[1].class = "generic" /\ hret[1].cut /\ hfn.err.w = 1

\* C33: with a positive ceiling and no failure of the transfer,
\* DownloadFileByID returns at most maxBytes bytes; when the source delivers
\* more it returns an error and no data; when it delivers exactly maxBytes
\* it returns no error (and all the bytes, unless maxBytes + 1 overflows)
C33_NeverMoreThanMaxBytes ==
    (Returned("DownloadFileByID") /\ hfn.maxBytes > 0) =>
        /\ hret[1].data <= hfn.maxBytes
        /\ (hret[1].err = "none") = (hret[1].data >= 0)
        /\ (hfn.fail = "none" /\ hfn.delivered > hfn.maxBytes) =>
              (hret[1].err = "too_large" /\ hret[1].data < 0)
        /\ (hfn.fail = "none" /\ hfn.delivered = hfn.maxBytes) =>
              /\ hret[1].err = "none"
              /\ hfn.maxBytes < 2 ^ (IntBits - 1) - 1 => hret[1].data = hfn.delivered

\* C33 witness: a source that delivered one byte more than the ceiling was
\* refused
C33_Witness ==
    /\ Returned("DownloadFileByID")
    /\ hfn.fail = "none" /\ hfn.maxBytes > 0
    /\ hfn.delivered = hfn.maxBytes + 1
    /\ hret[1].err = "too_large"

====
